---- MODULE Spec2Model ----
(***************************************************************************)
(* beanstalk-deploy: the deployment monitor (waitForDeployment) and its    *)
(* caller, modelled as a state machine.                                    *)
(*                                                                         *)
(* One step of the model is one run-to-completion job of the Node.js event *)
(* loop: a timer callback (update) or the promise reaction that handles    *)
(* the outcome of one awsApiRequest call, together with the microtasks it  *)
(* triggers (the caller's .then/.catch, which end in process.exit).        *)
(*                                                                         *)
(* Times are JavaScript Date values in milliseconds.  The model clock only *)
(* takes values that are TickMs apart.  Event timestamps have a resolution *)
(* of half a second, so that dropping the milliseconds in StartTime is     *)
(* visible.  EventDate is kept in milliseconds (the code multiplies the    *)
(* platform's seconds by 1000 wherever it reads the field).                *)
(***************************************************************************)
EXTENDS Integers, Sequences, FiniteSets, TLC

----------------------------------------------------------------------------
(* Bounds of the model *)

\* Spec: update() is called at most MaxCycles times in one run and the
\* platform records at most MaxEvents events.  In every specification the
\* clock stops one tick before the number of cycles, which is when the last
\* cycle can start at the earliest.
MaxCycles == 2
MaxEvents == 1
\* SpecEvents: the same run with more events
EventsCycles == 2
EventsMax == 2
\* SpecQuiet: a run during which the platform records no event
QuietCycles == 4
\* SpecLong: a longer run during which the platform records no event
LongCycles == 5
\* SpecRequest: one awsApiRequest invocation is redirected at most this often
MaxRedirects == 1

----------------------------------------------------------------------------
(* Program constants *)

SECOND == 1000
MINUTE == 60 * SECOND
\* consecutiveThrottleErrors >= 5 aborts the monitor
ThrottleLimit == 5

\* resolution of the model clock
TickMs == 10 * SECOND
HalfSecond == SECOND \div 2

\* values of wait_for_environment_recovery explored
RecoveryChoices == {0, 10}
\* timestamps of the events the platform records
EventTimes == {0, HalfSecond, SECOND}

\* `let healThreshold;` : undefined until the monitor is degraded
NoThreshold == -1
\* no setTimeout(update, ...) pending
NoTimer == -1
\* process.exit has not been called
Running == -1

\* the version label being deployed, and the one the environment ran before
V == "v2"
Labels == {"v1", V}
Statuses == {"Ready", "Updating"}
Healths == {"Green", "Yellow"}

\* Environments[0] of a DescribeEnvironments response
Snapshots == [VersionLabel : Labels, Status : Statuses, Health : Healths]
NoEnv == [VersionLabel |-> "", Status |-> "", Health |-> ""]

VARIABLES
    now,                        \* new Date().getTime()
    waitForRecoverySeconds,     \* parameter of waitForDeployment
    start,                      \* parameter `start`, the DescribeEvents cursor
    counter, degraded, healThreshold, deploymentFailed,
    waitPeriod, waitStart,
    eventCalls, environmentCalls,
    consecutiveThrottleErrors,
    promise,                    \* the promise waitForDeployment returns
    timer,                      \* due time of the pending setTimeout(update)
    calls,                      \* awsApiRequest calls in flight
    cycle,                      \* number of update() calls so far
    exitCode,                   \* argument of process.exit, or Running
    platformEvents,             \* the platform's event log, oldest first
    logged,                     \* logged[id]: how often console.log wrote event id
    envLog,                     \* class of every DescribeEnvironments outcome handled
    last                        \* the outcome the latest handler was given

\* one invocation of awsApiRequest, with the invocations it makes of itself
VARIABLES
    region,                     \* options.region || awsApiRequest.region
    optionsHost,                \* options.host, <<>> when the caller gave none
    optionsHeaders,             \* options.headers: was it given, and its Host
    retryAttempt,               \* parameter retryAttempt of the latest invocation
    phase,                      \* "request", "backoff", "resolved" or "rejected"
    timeout,                    \* delay of the latest setTimeout, in ms
    httpRequests,               \* number of calls of request() so far
    retries,                    \* number of throttling retries scheduled so far
    redirects,                  \* number of redirects followed so far
    hostname,                   \* the host the latest request was sent to
    canonicalHost,              \* the host: line of its canonical request
    location,                   \* hostname of the Location URL followed last
    response,                   \* the latest result request() called back with
    apiResult                   \* what the caller's promise settled with

apiVars == <<region, optionsHost, optionsHeaders, retryAttempt, phase, timeout,
             httpRequests, retries, redirects, hostname, canonicalHost, location,
             response, apiResult>>

\* main, deployNewVersion and deployExistingVersion
VARIABLES
    given,                      \* process.env: region, keys, wait_for_deployment,
                                \* max_backoff_retries
    environmentName, file, existingBucketName,
    useExistingVersionIfAvailable, waitUntilDeploymentIsFinished,
    pc,                         \* the call whose outcome the run is waiting for
    issued,                     \* the requests issued so far, in order
    results,                    \* the outcomes of their calls, in the same order
    bucket,                     \* the variable `bucket` of deployNewVersion
    deployVersionConsecutiveThrottlingErrors,
    retryDelay,                 \* delay of the pending setTimeout(deployExistingVersion)
    failure,                    \* the error the run reported, "" when none
    runExitCode                 \* argument of process.exit, or Running

runVars == <<given, environmentName, file, existingBucketName,
             useExistingVersionIfAvailable, waitUntilDeploymentIsFinished,
             pc, issued, results, bucket,
             deployVersionConsecutiveThrottlingErrors, retryDelay, failure,
             runExitCode>>

\* the signing part of awsApiRequest
VARIABLES
    options,                    \* the argument of awsApiRequest
    clock,                      \* new Date().getTime(), in ms
    signedRequests              \* what each invocation so far has signed

signVars == <<options, clock, signedRequests>>

monitorVars == <<counter, degraded, healThreshold, deploymentFailed,
                 eventCalls, environmentCalls, consecutiveThrottleErrors>>

\* the variables of waitForDeployment, its caller's exit and the platform
waitVars == <<now, waitForRecoverySeconds, start, counter, degraded, healThreshold,
              deploymentFailed, waitPeriod, waitStart, eventCalls, environmentCalls,
              consecutiveThrottleErrors, promise, timer, calls, cycle, exitCode,
              platformEvents, logged, envLog, last>>

vars == <<waitVars, apiVars, runVars, signVars>>

----------------------------------------------------------------------------
(* Helpers *)

Reverse(s) == [i \in 1..Len(s) |-> s[Len(s) + 1 - i]]

Last(s) == s[Len(s)]

\* the log after console.log wrote each event of the batch
LogAll(log, events) ==
    [id \in 1..Len(log) |->
        log[id] + Cardinality({i \in 1..Len(events) : events[i].id = id})]

----------------------------------------------------------------------------
(* awsApiRequest, as seen by its caller: the returned promise is either    *)
(* fulfilled with a result {statusCode, data} or rejected with a transport *)
(* error.  A throttled result reaches the caller only after awsApiRequest  *)
(* has given up retrying.                                                  *)

Result(status, code, events, environments) ==
    [statusCode |-> status, Code |-> code, Events |-> events, Environments |-> environments]

ThrottledResult == Result(400, "Throttling", <<>>, <<>>)

ErrorResults == { Result(400, "InvalidParameterValue", <<>>, <<>>),
                  Result(500, "InternalFailure", <<>>, <<>>) }

Fulfilled(result) == [fulfilled |-> TRUE, result |-> result]
TransportError == [fulfilled |-> FALSE, result |-> Result(0, "", <<>>, <<>>)]

wasThrottled(result) ==
    result.statusCode = 400 /\ result.Code = "Throttling"

\* toISOString().replace(/(-|:|\.\d\d\d)/g, '') drops the milliseconds
FormatStartTime(startTime) == startTime - (startTime % SECOND)

describeEvents(startTime) ==
    [op |-> "DescribeEvents", cycle |-> cycle + 1,
     StartTime |-> FormatStartTime(startTime), sentLen |-> Len(platformEvents)]

describeEnvironments ==
    [op |-> "DescribeEnvironments", cycle |-> cycle + 1, StartTime |-> 0, sentLen |-> 0]

----------------------------------------------------------------------------
(* The platform *)

\* the events recorded when the log held n events, newest first, that are
\* at or after the requested StartTime
EventBatch(startTime, n) ==
    SelectSeq([i \in 1..n |-> platformEvents[n + 1 - i]],
              LAMBDA ev : ev.EventDate >= startTime)

\* what DescribeEvents call c may come back with: the platform answers at
\* some moment between the request and now
EventsOutcomes(c) ==
    { Fulfilled(Result(200, "", EventBatch(c.StartTime, n), <<>>)) :
          n \in c.sentLen..Len(platformEvents) }
    \cup { Fulfilled(ThrottledResult), TransportError }
    \cup { Fulfilled(r) : r \in ErrorResults }

EnvironmentsOutcomes ==
    { Fulfilled(Result(200, "", <<>>, <<env>>)) : env \in Snapshots }
    \cup { Fulfilled(Result(200, "", <<>>, <<>>)) }
    \cup { Fulfilled(ThrottledResult), TransportError }
    \cup { Fulfilled(r) : r \in ErrorResults }

\* the platform records an event; timestamps never go back
PlatformEvent(maxEvents) ==
    /\ exitCode = Running
    /\ Len(platformEvents) < maxEvents
    /\ \E t \in EventTimes, f \in BOOLEAN :
          /\ platformEvents # <<>> => t >= Last(platformEvents).EventDate
          /\ platformEvents' = Append(platformEvents,
                 [id |-> Len(platformEvents) + 1, EventDate |-> t, Failed |-> f])
    /\ logged' = Append(logged, 0)
    /\ UNCHANGED <<now, waitForRecoverySeconds, start, monitorVars, waitPeriod,
                   waitStart, promise, timer, calls, cycle, exitCode, envLog, last>>
    /\ UNCHANGED <<apiVars, runVars, signVars>>

Tick(maxCycles) ==
    /\ exitCode = Running
    /\ now < waitStart + (maxCycles - 1) * TickMs
    /\ now' = now + TickMs
    /\ UNCHANGED <<waitForRecoverySeconds, start, monitorVars, waitPeriod,
                   waitStart, promise, timer, calls, cycle, exitCode,
                   platformEvents, logged, envLog, last>>
    /\ UNCHANGED <<apiVars, runVars, signVars>>

----------------------------------------------------------------------------
(* The promise returned by waitForDeployment, and its caller *)

Pending == [state |-> "pending", env |-> NoEnv, reason |-> ""]

\* resolve(env): a promise settles once, later calls change nothing
resolve(p, env) ==
    IF p.state = "pending" THEN [state |-> "resolved", env |-> env, reason |-> ""] ELSE p

\* reject(new Error(...))
reject(p, reason, env) ==
    IF p.state = "pending" THEN [state |-> "rejected", env |-> env, reason |-> reason] ELSE p

\* mutant: the process exits with 0 however the promise settled
ExitCodeForSettled(p) == IF p.state = "pending" THEN Running ELSE 0

\* mutant: the caller does not end the process when the promise settles
KeepRunning(p) == Running

\* deployNewVersion / deployExistingVersion: .then(envAfterDeployment => ...)
\* and .catch(err => ...), run as microtasks of the job that settled p
ExitCodeFor(p) ==
    IF p.state = "resolved" THEN (IF p.env.Health = "Green" THEN 0 ELSE 1)
    ELSE IF p.state = "rejected" THEN 2
    ELSE Running

MonitorState ==
    IF promise.state = "resolved" THEN "Done"
    ELSE IF promise.state = "rejected" THEN "Failed"
    ELSE IF degraded THEN "Degraded"
    ELSE "Polling"

----------------------------------------------------------------------------
(* waitForDeployment *)

\* mutant: the wait widens from exactly 5 and exactly 10 minutes on
NextWaitPeriodFrom(elapsed, period) ==
    IF elapsed >= 10 * MINUTE THEN 30 * SECOND
    ELSE IF elapsed >= 5 * MINUTE THEN 20 * SECOND
    ELSE period

\* update(): "Limit update requests for really long deploys"
NextWaitPeriod(elapsed, period) ==
    IF elapsed > 10 * MINUTE THEN 30 * SECOND
    ELSE IF elapsed > 5 * MINUTE THEN 20 * SECOND
    ELSE period

\* env.VersionLabel === versionLabel && env.Status === 'Ready'
IsDeployed(env) == env.VersionLabel = V /\ env.Status = "Ready"

\* mutant: a Yellow environment counts as healthy
IsGreenOrYellow(env) == env.Health \in {"Green", "Yellow"}

\* env.Health === 'Green'
IsGreen(env) == env.Health = "Green"

\* mutant: the grace period already ends at the threshold
AtOrPastThreshold(time, threshold) == time >= threshold

\* new Date().getTime() > healThreshold.getTime()
PastThreshold(time, threshold) == time > threshold

\* new Date(new Date().getTime() + waitForRecoverySeconds * SECOND)
NewThreshold(time, seconds) == time + seconds * SECOND

\* mutant: the failure signature never matches
NeverFailure(events) == FALSE

\* ev.Message.match(/Failed to deploy application/) for some event of the batch
HasFailure(events) == \E i \in 1..Len(events) : events[i].Failed

\* mutant: the cursor follows the oldest event of the batch
NextStartOldest(events) == events[1].EventDate + SECOND

\* new Date(events[events.length-1].EventDate * 1000 + 1000)
NextStart(events) == Last(events).EventDate + SECOND

\* the timer callback update(): adjusts the wait period and issues the two calls
update(maxCycles) ==
    /\ exitCode = Running
    /\ timer # NoTimer
    /\ now >= timer
    /\ cycle < maxCycles
    /\ timer' = NoTimer
    /\ waitPeriod' = NextWaitPeriod(now - waitStart, waitPeriod)
    /\ calls' = calls \cup {describeEvents(start), describeEnvironments}
    /\ cycle' = cycle + 1
    /\ UNCHANGED <<now, waitForRecoverySeconds, start, monitorVars, waitStart,
                   promise, exitCode, platformEvents, logged, envLog, last>>
    /\ UNCHANGED <<apiVars, runVars, signVars>>

\* what `last` keeps of the outcome a handler was given
Handled(c, o, env) ==
    [op |-> c.op, fulfilled |-> o.fulfilled, statusCode |-> o.result.statusCode,
     Code |-> o.result.Code, env |-> env]

\* mutant: the events handler takes every status 400 for throttling
EventsBranchAny400(o) ==
    IF ~o.fulfilled THEN "transport"
    ELSE IF o.result.statusCode = 400 THEN "throttled"
    ELSE IF o.result.statusCode # 200 THEN "status"
    ELSE "events"

\* mutant: no throttling check in the events handler, expect(200, result) first
EventsBranchUnthrottled(o) ==
    IF ~o.fulfilled THEN "transport"
    ELSE IF o.result.statusCode # 200 THEN "status"
    ELSE "events"

\* which path describeEvents(...).then(result => ...).catch(reject) takes
EventsBranch(o) ==
    IF ~o.fulfilled THEN "transport"
    ELSE IF wasThrottled(o.result) THEN "throttled"
    ELSE IF o.result.statusCode # 200 THEN "status"
    ELSE "events"

\* describeEvents(application, environmentName, start).then(...).catch(reject)
HandleEvents(c, o) ==
    LET branch == EventsBranch(o)
        events == Reverse(o.result.Events)
        settled == IF branch = "transport" THEN reject(promise, "transport", NoEnv)
                   ELSE IF branch = "status" THEN reject(promise, "describeEvents", NoEnv)
                   ELSE promise
    IN  /\ calls' = calls \ {c}
        /\ eventCalls' = IF o.fulfilled THEN eventCalls + 1 ELSE eventCalls
        /\ consecutiveThrottleErrors' =
              IF branch = "throttled" THEN consecutiveThrottleErrors + 1
              ELSE IF branch = "transport" THEN consecutiveThrottleErrors
              ELSE 0
        /\ logged' = IF branch = "events" THEN LogAll(logged, events) ELSE logged
        /\ deploymentFailed' =
              IF branch = "events" /\ HasFailure(events) THEN TRUE ELSE deploymentFailed
        /\ start' = IF branch = "events" /\ Len(events) > 0 THEN NextStart(events) ELSE start
        /\ promise' = settled
        /\ exitCode' = ExitCodeFor(settled)
        /\ last' = Handled(c, o, NoEnv)
        /\ UNCHANGED <<now, waitForRecoverySeconds, counter, degraded, healThreshold,
                       environmentCalls, waitPeriod, waitStart, timer, cycle,
                       platformEvents, envLog>>
        /\ UNCHANGED <<apiVars, runVars, signVars>>

EventsHandler ==
    /\ exitCode = Running
    /\ \E c \in calls :
          /\ c.op = "DescribeEvents"
          /\ \E o \in EventsOutcomes(c) : HandleEvents(c, o)

\* mutant: a degraded monitor tests the threshold before the health
EnvironmentsBranchThresholdFirst(o) ==
    IF ~o.fulfilled THEN "transport"
    ELSE IF wasThrottled(o.result) THEN
        (IF consecutiveThrottleErrors + 1 >= ThrottleLimit THEN "throttledFatal"
         ELSE "throttled")
    ELSE IF o.result.statusCode # 200 THEN "status"
    ELSE IF Len(o.result.Environments) = 0 THEN "noEnvironment"
    ELSE LET env == o.result.Environments[1] IN
         IF IsDeployed(env) THEN
            IF ~degraded THEN (IF IsGreen(env) THEN "finished" ELSE "degraded")
            ELSE IF PastThreshold(now, healThreshold) THEN "timeout"
            ELSE IF IsGreen(env) THEN "recovered"
            ELSE "waiting"
         ELSE IF deploymentFailed THEN "failed"
         ELSE "updating"

\* mutant: every snapshot that is deployed and not Green starts a recovery
\* period, also when the monitor is degraded already
EnvironmentsBranchDegradesAgain(o) ==
    IF ~o.fulfilled THEN "transport"
    ELSE IF wasThrottled(o.result) THEN
        (IF consecutiveThrottleErrors + 1 >= ThrottleLimit THEN "throttledFatal"
         ELSE "throttled")
    ELSE IF o.result.statusCode # 200 THEN "status"
    ELSE IF Len(o.result.Environments) = 0 THEN "noEnvironment"
    ELSE LET env == o.result.Environments[1] IN
         IF IsDeployed(env) THEN
            IF IsGreen(env) THEN (IF degraded THEN "recovered" ELSE "finished")
            ELSE "degraded"
         ELSE IF deploymentFailed THEN "failed"
         ELSE "updating"

\* mutant: the deployment-failure flag is tested before the version and status
EnvironmentsBranchFailedFirst(o) ==
    IF ~o.fulfilled THEN "transport"
    ELSE IF wasThrottled(o.result) THEN
        (IF consecutiveThrottleErrors + 1 >= ThrottleLimit THEN "throttledFatal"
         ELSE "throttled")
    ELSE IF o.result.statusCode # 200 THEN "status"
    ELSE IF Len(o.result.Environments) = 0 THEN "noEnvironment"
    ELSE LET env == o.result.Environments[1] IN
         IF deploymentFailed THEN "failed"
         ELSE IF IsDeployed(env) THEN
            IF ~degraded THEN (IF IsGreen(env) THEN "finished" ELSE "degraded")
            ELSE IF IsGreen(env) THEN "recovered"
            ELSE IF PastThreshold(now, healThreshold) THEN "timeout"
            ELSE "waiting"
         ELSE "updating"

\* which path describeEnvironments(...).then(result => ...).catch(reject) takes
EnvironmentsBranch(o) ==
    IF ~o.fulfilled THEN "transport"
    ELSE IF wasThrottled(o.result) THEN
        (IF consecutiveThrottleErrors + 1 >= ThrottleLimit THEN "throttledFatal"
         ELSE "throttled")
    ELSE IF o.result.statusCode # 200 THEN "status"
    ELSE IF Len(o.result.Environments) = 0 THEN "noEnvironment"
    ELSE LET env == o.result.Environments[1] IN
         IF IsDeployed(env) THEN
            IF ~degraded THEN (IF IsGreen(env) THEN "finished" ELSE "degraded")
            ELSE IF IsGreen(env) THEN "recovered"
            ELSE IF PastThreshold(now, healThreshold) THEN "timeout"
            ELSE "waiting"
         ELSE IF deploymentFailed THEN "failed"
         ELSE "updating"

\* mutant: the throttled path returns without setTimeout(update, waitPeriod)
ReschedulingUnlessThrottled == {"degraded", "waiting", "updating"}

\* the paths that end in setTimeout(update, waitPeriod)
Rescheduling == {"throttled", "degraded", "waiting", "updating"}

\* how envLog names a DescribeEnvironments outcome: a throttled result, a
\* snapshot that is not (version V and status Ready), one that is and whose
\* health is or is not Green, or a failure of the call
EnvironmentsClass(o) ==
    IF ~o.fulfilled THEN "error"
    ELSE IF o.result.statusCode = 400 /\ o.result.Code = "Throttling" THEN "throttled"
    ELSE IF o.result.statusCode # 200 \/ Len(o.result.Environments) = 0 THEN "error"
    ELSE LET env == o.result.Environments[1] IN
         IF ~(env.VersionLabel = V /\ env.Status = "Ready") THEN "other"
         ELSE IF env.Health = "Green" THEN "green" ELSE "notGreen"

\* describeEnvironments(application, environmentName).then(...).catch(reject)
HandleEnvironments(c, o) ==
    LET branch == EnvironmentsBranch(o)
        env == IF Len(o.result.Environments) > 0 THEN o.result.Environments[1] ELSE NoEnv
        settled ==
            CASE branch \in {"finished", "recovered"} -> resolve(promise, env)
              [] branch = "transport"      -> reject(promise, "transport", NoEnv)
              [] branch = "throttledFatal" -> reject(promise, "throttling", NoEnv)
              [] branch = "status"         -> reject(promise, "describeEnvironments", NoEnv)
              [] branch = "noEnvironment"  -> reject(promise, "TypeError", NoEnv)
              [] branch = "timeout"        -> reject(promise, "timeout", env)
              [] branch = "failed"         -> reject(promise, "deploymentFailed", env)
              [] OTHER -> promise
    IN  /\ calls' = calls \ {c}
        /\ environmentCalls' = IF o.fulfilled THEN environmentCalls + 1 ELSE environmentCalls
        /\ consecutiveThrottleErrors' =
              IF branch \in {"throttled", "throttledFatal"} THEN consecutiveThrottleErrors + 1
              ELSE IF branch \in {"transport", "status"} THEN consecutiveThrottleErrors
              ELSE 0
        /\ counter' = IF branch \in {"transport", "throttled", "throttledFatal", "status"}
                      THEN counter ELSE counter + 1
        /\ degraded' = IF branch = "degraded" THEN TRUE ELSE degraded
        /\ healThreshold' = IF branch = "degraded"
                            THEN NewThreshold(now, waitForRecoverySeconds)
                            ELSE healThreshold
        /\ timer' = IF branch \in Rescheduling THEN now + waitPeriod ELSE timer
        /\ promise' = settled
        /\ exitCode' = ExitCodeFor(settled)
        /\ envLog' = Append(envLog, EnvironmentsClass(o))
        /\ last' = Handled(c, o, env)
        /\ UNCHANGED <<now, waitForRecoverySeconds, start, deploymentFailed, eventCalls,
                       waitPeriod, waitStart, cycle, platformEvents, logged>>
        /\ UNCHANGED <<apiVars, runVars, signVars>>

EnvironmentHandler ==
    /\ exitCode = Running
    /\ \E c \in calls :
          /\ c.op = "DescribeEnvironments"
          /\ \E o \in EnvironmentsOutcomes : HandleEnvironments(c, o)

----------------------------------------------------------------------------
(* awsApiRequest: one invocation by a caller, with the invocations it makes *)
(* of itself after a redirect or a throttled result.  One step is the       *)
(* callback of request() or the callback of the backoff timer; signing and  *)
(* the call of request() are part of the step that invokes awsApiRequest.   *)

\* const MAX_RETRY_COUNT = 10
MAX_RETRY_COUNT == 10

\* Math.random() is drawn from Randoms / RandomScale
RandomScale == 1000
Randoms == {0, 499, 999}

\* region codes, as sequences of one-character strings
Regions == { <<"u", "s", "-", "e", "a", "s", "t", "-", "1">>,
             <<"c", "n", "-", "n", "o", "r", "t", "h", "-", "1">>,
             <<"c", "a", "-", "c", "e", "n", "t", "r", "a", "l", "-", "1">> }

\* mutant: no region is taken for a region of AWS China
IsChinaNever(reg) == FALSE

\* region.match(/^cn-/)
IsChina(reg) == Len(reg) >= 3 /\ SubSeq(reg, 1, 3) = <<"c", "n", "-">>

\* A host name is a sequence of pieces of text.
\* hosts a caller may pass as options.host, <<>> for none
CallerHosts == {<<>>, <<"bucket.s3.amazonaws.com">>}
\* hostnames of the Location header of a redirect
LocationHosts == {<<"eu.amazonaws.com">>, <<"cn.amazonaws.com.cn">>}

RECURSIVE Pow2(_)
Pow2(n) == IF n = 0 THEN 1 ELSE 2 * Pow2(n - 1)

\* mutant: Math.ceil instead of Math.floor, the jitter reaches 500 ms
BackoffCeil(attempt, random) ==
    Pow2(attempt) * 100 + (random * 500 + RandomScale - 1) \div RandomScale

\* Math.pow(2, retryAttempt) * 100 + Math.floor(Math.random() * 500)
Backoff(attempt, random) ==
    Pow2(attempt) * 100 + (random * 500) \div RandomScale

\* host = options.host || `${service}.${region}.amazonaws.com`, and the
\* special case for AWS China
ResolveHost(host, reg) ==
    LET resolved == IF host # <<>> THEN host
                    ELSE <<"elasticbeanstalk.">> \o reg \o <<".amazonaws.com">>
    IN  IF IsChina(reg) THEN resolved \o <<".cn">> ELSE resolved

\* reqHeaders.Host: Object.assign({Host: host, ...}, sessionTokenHeader, headers),
\* the headers passed in override the computed host
ReqHeadersHost(host, headers, reg) ==
    IF headers.Host # <<>> THEN headers.Host ELSE ResolveHost(host, reg)

\* what request() calls back with, for the n-th request
ApiResponse(n, err, status, code, loc) ==
    [request |-> n, err |-> err, statusCode |-> status, Code |-> code, location |-> loc]

ApiResponses(n) ==
    { ApiResponse(n, TRUE, 0, "", <<>>) }
    \cup { ApiResponse(n, FALSE, st[1], st[2], <<>>) :
              st \in { <<200, "">>, <<400, "Throttling">>, <<400, "InvalidParameterValue">>,
                       <<429, "Throttling">>, <<500, "InternalFailure">>, <<302, "">> } }
    \cup { ApiResponse(n, FALSE, 301, "", h) : h \in LocationHosts }

NoResponse == ApiResponse(0, FALSE, 0, "", <<>>)

\* result.statusCode >= 300 && result.statusCode < 400 && result.headers.location
IsRedirect(r) == r.statusCode >= 300 /\ r.statusCode < 400 /\ r.location # <<>>

\* mutant: giving up rejects the promise
ApiBranchGiveUpRejects(r, attempt) ==
    IF r.err THEN "error"
    ELSE IF IsRedirect(r) THEN "redirect"
    ELSE IF wasThrottled(r) THEN
        (IF attempt > MAX_RETRY_COUNT THEN "error" ELSE "retry")
    ELSE "result"

\* mutant: every status 400 and above is retried
ApiBranchRetryErrors(r, attempt) ==
    IF r.err THEN "error"
    ELSE IF IsRedirect(r) THEN "redirect"
    ELSE IF r.statusCode >= 400 THEN
        (IF attempt > MAX_RETRY_COUNT THEN "giveUp" ELSE "retry")
    ELSE "result"

\* which path the callback of request() takes
ApiBranch(r, attempt) ==
    IF r.err THEN "error"
    ELSE IF IsRedirect(r) THEN "redirect"
    ELSE IF wasThrottled(r) THEN
        (IF attempt > MAX_RETRY_COUNT THEN "giveUp" ELSE "retry")
    ELSE "result"

\* request(method, path, reqHeaders, ..., (err, result) => { ... })
HandleResponse(r, random) ==
    LET branch == ApiBranch(r, retryAttempt)
        \* headers.Host = url.hostname, lost unless the caller's object holds it
        headers == IF branch = "redirect" /\ optionsHeaders.given
                   THEN [optionsHeaders EXCEPT !.Host = r.location]
                   ELSE optionsHeaders
        \* awsApiRequest({...options, host: url.hostname})
        host == IF branch = "redirect" THEN r.location ELSE optionsHost
    IN  /\ response' = r
        /\ optionsHeaders' = headers
        /\ optionsHost' = host
        /\ location' = IF branch = "redirect" THEN r.location ELSE location
        /\ redirects' = IF branch = "redirect" THEN redirects + 1 ELSE redirects
        /\ retryAttempt' = IF branch = "redirect" THEN 0 ELSE retryAttempt
        /\ httpRequests' = IF branch = "redirect" THEN httpRequests + 1 ELSE httpRequests
        /\ hostname' = IF branch = "redirect"
                       THEN ReqHeadersHost(host, headers, region) ELSE hostname
        /\ canonicalHost' = IF branch = "redirect"
                            THEN ReqHeadersHost(host, headers, region) ELSE canonicalHost
        /\ retries' = IF branch = "retry" THEN retries + 1 ELSE retries
        /\ timeout' = IF branch = "retry" THEN Backoff(retryAttempt, random) ELSE timeout
        /\ phase' = CASE branch = "error" -> "rejected"
                      [] branch \in {"giveUp", "result"} -> "resolved"
                      [] branch = "retry" -> "backoff"
                      [] OTHER -> "request"
        /\ apiResult' = IF branch \in {"error", "giveUp", "result"} THEN r ELSE apiResult
        /\ UNCHANGED region

ApiResponseHandler ==
    /\ phase = "request"
    /\ \E r \in ApiResponses(httpRequests), random \in Randoms :
          /\ IsRedirect(r) => redirects < MaxRedirects
          /\ HandleResponse(r, random)
    /\ UNCHANGED <<waitVars, runVars, signVars>>

\* setTimeout(() => resolve(awsApiRequest(options, retryAttempt + 1)), timeout)
ApiRetry ==
    /\ phase = "backoff"
    /\ phase' = "request"
    /\ retryAttempt' = retryAttempt + 1
    /\ httpRequests' = httpRequests + 1
    /\ hostname' = ReqHeadersHost(optionsHost, optionsHeaders, region)
    /\ canonicalHost' = ReqHeadersHost(optionsHost, optionsHeaders, region)
    /\ UNCHANGED <<region, optionsHost, optionsHeaders, timeout, retries, redirects,
                   location, response, apiResult>>
    /\ UNCHANGED <<waitVars, runVars, signVars>>

\* no awsApiRequest invocation is being followed
IdleApi ==
    /\ region = <<"u", "s", "-", "e", "a", "s", "t", "-", "1">>
    /\ optionsHost = <<>>
    /\ optionsHeaders = [given |-> FALSE, Host |-> <<>>]
    /\ retryAttempt = 0
    /\ phase = "resolved"
    /\ timeout = 0
    /\ httpRequests = 0
    /\ retries = 0
    /\ redirects = 0
    /\ hostname = <<>>
    /\ canonicalHost = <<>>
    /\ location = <<>>
    /\ response = NoResponse
    /\ apiResult = NoResponse

\* a caller has invoked awsApiRequest(options): the first request is signed
\* and sent
InitApi ==
    /\ region \in Regions
    /\ optionsHost \in CallerHosts
    /\ optionsHeaders \in [given : BOOLEAN, Host : {<<>>}]
    /\ retryAttempt = 0
    /\ phase = "request"
    /\ timeout = 0
    /\ httpRequests = 1
    /\ retries = 0
    /\ redirects = 0
    /\ hostname = ReqHeadersHost(optionsHost, optionsHeaders, region)
    /\ canonicalHost = ReqHeadersHost(optionsHost, optionsHeaders, region)
    /\ location = <<>>
    /\ response = NoResponse
    /\ apiResult = NoResponse

----------------------------------------------------------------------------
(* main, deployNewVersion and deployExistingVersion: one step is main() or *)
(* the reaction to the outcome of one call, together with the call it      *)
(* issues next.  The requests are recorded in `issued`.                    *)

\* Text that the code takes apart is a sequence of one-character strings.
\* a setting that is not in process.env
Undefined == <<"undefined">>
\* \s
Whitespace == {" ", "\t", "\n"}
UpperCase == <<"A", "B", "C", "D", "E", "F", "G", "H", "I", "J", "K", "L", "M",
               "N", "O", "P", "Q", "R", "S", "T", "U", "V", "W", "X", "Y", "Z">>
LowerCase == <<"a", "b", "c", "d", "e", "f", "g", "h", "i", "j", "k", "l", "m",
               "n", "o", "p", "q", "r", "s", "t", "u", "v", "w", "x", "y", "z">>

LowerChar(c) ==
    IF \E i \in 1..Len(UpperCase) : UpperCase[i] = c
    THEN LowerCase[CHOOSE i \in 1..Len(UpperCase) : UpperCase[i] = c]
    ELSE c

\* String.prototype.toLowerCase
toLowerCase(str) == [i \in 1..Len(str) |-> LowerChar(str[i])]

\* val || ''
OrEmpty(val) == IF val = Undefined THEN <<>> ELSE val

RECURSIVE TrimStart(_)
\* .replace(/^\s*/, '')
TrimStart(str) ==
    IF str # <<>> /\ Head(str) \in Whitespace THEN TrimStart(Tail(str)) ELSE str

RECURSIVE TrimEnd(_)
\* .replace(/\s*$/, '')
TrimEnd(str) ==
    IF str # <<>> /\ str[Len(str)] \in Whitespace
    THEN TrimEnd(SubSeq(str, 1, Len(str) - 1)) ELSE str

\* mutant: a setting that is not in process.env is not taken for empty
stripDefined(val) == TrimEnd(TrimStart(val))

\* strip(val): (val || '').replace(/^\s*|\s*$/g, '')
strip(val) == TrimEnd(TrimStart(OrEmpty(val)))

\* mutant: the deployment is waited for whatever wait_for_deployment says
WaitForDeploymentAlways(input) == TRUE

\* (process.env.INPUT_WAIT_FOR_DEPLOYMENT || '').toLowerCase() == 'false'
\* clears waitUntilDeploymentIsFinished
WaitForDeployment(input) ==
    toLowerCase(OrEmpty(input)) # <<"f", "a", "l", "s", "e">>

\* what process.env holds for the region and for each key
Settings == { Undefined, <<>>, <<" ">>, <<" ", "k", "\t">> }
\* values of the input max_backoff_retries the runs are started with
BackoffSettings == {Undefined, <<"3">>}
\* what process.env holds for wait_for_deployment
WaitSettings == { Undefined, <<"f", "a", "l", "s", "e">>,
                  <<"F", "a", "l", "s", "e">>, <<"t", "r", "u", "e">> }

\* existingBucketName = null
NoBucket == "null"
\* the bucket CreateStorageLocation answers with
StorageLocationBucket == "elasticbeanstalk-bucket"
\* deployVersionConsecutiveThrottlingErrors >= 5
DeployThrottleLimit == 5
\* setTimeout(() => deployExistingVersion(...), 10 * 1000)
DeployRetryDelay == 10 * 1000

\* what a call of awsApiRequest settles with, as far as the run looks at it
CallOutcomes ==
    { [err |-> TRUE, statusCode |-> 0, Code |-> ""] }
    \cup { [err |-> FALSE, statusCode |-> st[1], Code |-> st[2]] :
              st \in { <<200, "">>, <<404, "">>, <<400, "Throttling">>,
                       <<500, "InternalFailure">> } }

Issue(op, b) == Append(issued, [op |-> op, bucket |-> b])

\* what `results` keeps of an outcome; versions is versionsList.length of a
\* DescribeApplicationVersions result, 0 for every other call
Outcome(o, versions) ==
    [err |-> o.err, statusCode |-> o.statusCode, Code |-> o.Code,
     versions |-> IF ~o.err /\ o.statusCode = 200 THEN versions ELSE 0]

\* process.exit(code), after console.error of the failure when there is one
Exit(code, why) ==
    /\ runExitCode' = code
    /\ failure' = why
    /\ pc' = "exit"

\* .catch(err => { console.error(`Deployment failed: ${err}`); process.exit(2) })
\* for a rejected call and for the error expect(status, result) throws
Catch(o) == Exit(2, IF o.err THEN "transport" ELSE "status")

\* main() as the GitHub Action: the settings are read and checked, then
\* getApplicationVersion is called
main ==
    /\ pc = "main"
    /\ UNCHANGED results
    /\ waitUntilDeploymentIsFinished' = WaitForDeployment(given.waitForDeployment)
    /\ IF \/ strip(given.region) = <<>>
          \/ strip(given.accessKey) = <<>>
          \/ strip(given.secretKey) = <<>>
       THEN /\ Exit(2, "config")
            /\ UNCHANGED issued
       ELSE /\ pc' = "getApplicationVersion"
            /\ issued' = Issue("DescribeApplicationVersions", "")
            /\ UNCHANGED <<failure, runExitCode>>
    /\ UNCHANGED retryDelay
    /\ UNCHANGED <<given, environmentName, file, existingBucketName,
                   useExistingVersionIfAvailable,
                   bucket, deployVersionConsecutiveThrottlingErrors>>
    /\ UNCHANGED <<waitVars, apiVars, signVars>>

\* mutant: a package is uploaded although the version exists
VersionVerdictUploadsAnyway(versions, name, package, useExisting) ==
    IF package # "" /\ ~useExisting THEN "deployNew"
    ELSE IF versions = 1 THEN
        IF name = "" THEN
            IF useExisting THEN "noChange" ELSE "versionExists"
        ELSE "deployExisting"
    ELSE IF package # "" THEN "deployNew"
    ELSE "noPackage"

\* what main does with versionsList.length === 1, the environment name, the
\* package and use_existing_version_if_available
VersionVerdict(versions, name, package, useExisting) ==
    IF versions = 1 THEN
        IF name = "" THEN
            IF useExisting THEN "noChange" ELSE "versionExists"
        ELSE IF package # "" /\ ~useExisting THEN "versionExists"
        ELSE "deployExisting"
    ELSE IF package # "" THEN "deployNew"
    ELSE "noPackage"

\* getApplicationVersion(application, versionLabel).then(result => ...)
\* versions: versionsList.length
AfterGetApplicationVersion ==
    /\ pc = "getApplicationVersion"
    /\ \E o \in CallOutcomes, versions \in {0, 1} :
          LET verdict == VersionVerdict(versions, environmentName, file,
                                        useExistingVersionIfAvailable)
          IN
          /\ results' = Append(results, Outcome(o, versions))
          /\ IF o.err \/ o.statusCode # 200 THEN
                 /\ Catch(o)
                 /\ UNCHANGED <<issued, bucket>>
             ELSE IF verdict = "noChange" THEN
                 /\ Exit(0, "")
                 /\ UNCHANGED <<issued, bucket>>
             ELSE IF verdict = "deployExisting" THEN
                 \* deployExistingVersion(...) calls deployBeanstalkVersion
                 /\ pc' = "deployExistingVersion"
                 /\ issued' = Issue("UpdateEnvironment", "")
                 /\ UNCHANGED <<bucket, failure, runExitCode>>
             ELSE IF verdict = "deployNew" THEN
                 \* deployNewVersion(..., existingBucketName, ...) calls readFile
                 /\ pc' = "readFile"
                 /\ bucket' = existingBucketName
                 /\ UNCHANGED <<issued, failure, runExitCode>>
             ELSE
                 /\ Exit(2, verdict)
                 /\ UNCHANGED <<issued, bucket>>
    /\ UNCHANGED retryDelay
    /\ UNCHANGED <<given, environmentName, file, existingBucketName,
                   useExistingVersionIfAvailable, waitUntilDeploymentIsFinished,
                   deployVersionConsecutiveThrottlingErrors>>
    /\ UNCHANGED <<waitVars, apiVars, signVars>>

\* mutant: the storage location is requested although a bucket was given
NeedsStorageLocationAlways(b) == TRUE

\* bucket === null
NeedsStorageLocation(b) == b = NoBucket

\* readFile(file).then(result => ...), and the next reaction when it had
\* no call to wait for
AfterReadFile ==
    /\ pc = "readFile"
    /\ UNCHANGED results
    /\ \E err \in BOOLEAN :
          IF err THEN
              /\ Exit(2, "readFile")
              /\ UNCHANGED issued
          ELSE IF NeedsStorageLocation(bucket) THEN
              /\ pc' = "createStorageLocation"
              /\ issued' = Issue("CreateStorageLocation", "")
              /\ UNCHANGED <<failure, runExitCode>>
          ELSE
              /\ pc' = "checkIfFileExistsInS3"
              /\ issued' = Issue("HEAD", bucket)
              /\ UNCHANGED <<failure, runExitCode>>
    /\ UNCHANGED retryDelay
    /\ UNCHANGED <<given, environmentName, file, existingBucketName,
                   useExistingVersionIfAvailable, waitUntilDeploymentIsFinished,
                   bucket, deployVersionConsecutiveThrottlingErrors>>
    /\ UNCHANGED <<waitVars, apiVars, signVars>>

\* createStorageLocation().then(result => ...)
AfterCreateStorageLocation ==
    /\ pc = "createStorageLocation"
    /\ \E o \in CallOutcomes :
          /\ results' = Append(results, Outcome(o, 0))
          /\ IF o.err \/ o.statusCode # 200 THEN
                 /\ Catch(o)
                 /\ UNCHANGED <<issued, bucket>>
             ELSE
                 /\ bucket' = StorageLocationBucket
                 /\ pc' = "checkIfFileExistsInS3"
                 /\ issued' = Issue("HEAD", bucket')
                 /\ UNCHANGED <<failure, runExitCode>>
    /\ UNCHANGED retryDelay
    /\ UNCHANGED <<given, environmentName, file, existingBucketName,
                   useExistingVersionIfAvailable, waitUntilDeploymentIsFinished,
                   deployVersionConsecutiveThrottlingErrors>>
    /\ UNCHANGED <<waitVars, apiVars, signVars>>

\* mutant: an existing file is overwritten
HeadVerdictOverwrite(o) ==
    IF o.err THEN "transport"
    ELSE IF o.statusCode \in {200, 404} THEN "upload"
    ELSE "status"

\* if (result.statusCode === 200) throw ...; expect(404, result)
HeadVerdict(o) ==
    IF o.err THEN "transport"
    ELSE IF o.statusCode = 200 THEN "alreadyInS3"
    ELSE IF o.statusCode # 404 THEN "status"
    ELSE "upload"

\* checkIfFileExistsInS3(bucket, s3Key).then(result => ...)
AfterCheckIfFileExistsInS3 ==
    /\ pc = "checkIfFileExistsInS3"
    /\ \E o \in CallOutcomes :
          /\ results' = Append(results, Outcome(o, 0))
          /\ IF HeadVerdict(o) = "upload" THEN
                 /\ pc' = "uploadFileToS3"
                 /\ issued' = Issue("PUT", bucket)
                 /\ UNCHANGED <<failure, runExitCode>>
             ELSE
                 /\ Exit(2, HeadVerdict(o))
                 /\ UNCHANGED issued
    /\ UNCHANGED retryDelay
    /\ UNCHANGED <<given, environmentName, file, existingBucketName,
                   useExistingVersionIfAvailable, waitUntilDeploymentIsFinished,
                   bucket, deployVersionConsecutiveThrottlingErrors>>
    /\ UNCHANGED <<waitVars, apiVars, signVars>>

\* mutant: the status of a result is not looked at
ExpectedAnything(status, o) == ~o.err

\* expect(status, result) does not throw
Expected(status, o) == ~o.err /\ o.statusCode = status

\* uploadFileToS3(bucket, s3Key, fileBuffer).then(result => ...)
AfterUploadFileToS3 ==
    /\ pc = "uploadFileToS3"
    /\ \E o \in CallOutcomes :
          /\ results' = Append(results, Outcome(o, 0))
          /\ IF Expected(200, o) THEN
                 /\ pc' = "createBeanstalkVersion"
                 /\ issued' = Issue("CreateApplicationVersion", bucket)
                 /\ UNCHANGED <<failure, runExitCode>>
             ELSE
                 /\ Catch(o)
                 /\ UNCHANGED issued
    /\ UNCHANGED retryDelay
    /\ UNCHANGED <<given, environmentName, file, existingBucketName,
                   useExistingVersionIfAvailable, waitUntilDeploymentIsFinished,
                   bucket, deployVersionConsecutiveThrottlingErrors>>
    /\ UNCHANGED <<waitVars, apiVars, signVars>>

\* mutant: the new version is deployed whether or not an environment is named
HasEnvironmentAlways(name) == TRUE

\* !environmentName is false
HasEnvironment(name) == name # ""

\* createBeanstalkVersion(...).then(result => ...)
AfterCreateBeanstalkVersion ==
    /\ pc = "createBeanstalkVersion"
    /\ \E o \in CallOutcomes :
          /\ results' = Append(results, Outcome(o, 0))
          /\ IF ~Expected(200, o) THEN
                 /\ Catch(o)
                 /\ UNCHANGED issued
             ELSE IF ~HasEnvironment(environmentName) THEN
                 /\ Exit(0, "")
                 /\ UNCHANGED issued
             ELSE
                 /\ pc' = "deployBeanstalkVersion"
                 /\ issued' = Issue("UpdateEnvironment", "")
                 /\ UNCHANGED <<failure, runExitCode>>
    /\ UNCHANGED retryDelay
    /\ UNCHANGED <<given, environmentName, file, existingBucketName,
                   useExistingVersionIfAvailable, waitUntilDeploymentIsFinished,
                   bucket, deployVersionConsecutiveThrottlingErrors>>
    /\ UNCHANGED <<waitVars, apiVars, signVars>>

\* waitForDeployment(...): the first update() issues its two calls
StartMonitor ==
    /\ pc' = "waitForDeployment"
    /\ issued' = Append(Issue("DescribeEvents", ""),
                        [op |-> "DescribeEnvironments", bucket |-> ""])
    /\ UNCHANGED <<failure, runExitCode>>

\* deployNewVersion: deployBeanstalkVersion(...).then(result => ...)
AfterDeployBeanstalkVersion ==
    /\ pc = "deployBeanstalkVersion"
    /\ \E o \in CallOutcomes :
          /\ results' = Append(results, Outcome(o, 0))
          /\ IF ~Expected(200, o) THEN
                 /\ Catch(o)
                 /\ UNCHANGED issued
             ELSE IF waitUntilDeploymentIsFinished THEN StartMonitor
             ELSE
                 /\ Exit(0, "")
                 /\ UNCHANGED issued
    /\ UNCHANGED retryDelay
    /\ UNCHANGED <<given, environmentName, file, existingBucketName,
                   useExistingVersionIfAvailable, waitUntilDeploymentIsFinished,
                   bucket, deployVersionConsecutiveThrottlingErrors>>
    /\ UNCHANGED <<waitVars, apiVars, signVars>>

\* mutant: the limit is tested with > instead of >=
ThrottledTooOftenAbove(errors) == errors > DeployThrottleLimit

\* if (deployVersionConsecutiveThrottlingErrors >= 5)
ThrottledTooOften(errors) == errors >= DeployThrottleLimit

\* deployExistingVersion: deployBeanstalkVersion(...).then(result => ...)
\* with its .catch(err => ...)
AfterDeployExistingVersion ==
    /\ pc = "deployExistingVersion"
    /\ \E o \in CallOutcomes :
          /\ results' = Append(results, Outcome(o, 0))
          /\ IF o.err THEN
                 /\ Catch(o)
                 /\ UNCHANGED <<issued, deployVersionConsecutiveThrottlingErrors,
                                retryDelay>>
             ELSE IF o.statusCode # 200 /\ wasThrottled(o) THEN
                 /\ deployVersionConsecutiveThrottlingErrors' =
                       deployVersionConsecutiveThrottlingErrors + 1
                 /\ IF ThrottledTooOften(deployVersionConsecutiveThrottlingErrors')
                    THEN /\ Exit(2, "throttling")
                         /\ UNCHANGED retryDelay
                    ELSE /\ pc' = "retryDeployExistingVersion"
                         /\ retryDelay' = DeployRetryDelay
                         /\ UNCHANGED <<failure, runExitCode>>
                 /\ UNCHANGED issued
             ELSE IF o.statusCode # 200 THEN
                 /\ Catch(o)
                 /\ UNCHANGED <<issued, deployVersionConsecutiveThrottlingErrors,
                                retryDelay>>
             ELSE IF waitUntilDeploymentIsFinished THEN
                 /\ StartMonitor
                 /\ UNCHANGED <<deployVersionConsecutiveThrottlingErrors, retryDelay>>
             ELSE
                 /\ Exit(0, "")
                 /\ UNCHANGED <<issued, deployVersionConsecutiveThrottlingErrors,
                                retryDelay>>
    /\ UNCHANGED <<given, environmentName, file, existingBucketName,
                   useExistingVersionIfAvailable, waitUntilDeploymentIsFinished,
                   bucket>>
    /\ UNCHANGED <<waitVars, apiVars, signVars>>

\* setTimeout(() => deployExistingVersion(...), 10 * 1000)
RetryDeployExistingVersion ==
    /\ pc = "retryDeployExistingVersion"
    /\ UNCHANGED results
    /\ pc' = "deployExistingVersion"
    /\ issued' = Issue("UpdateEnvironment", "")
    /\ retryDelay' = NoTimer
    /\ UNCHANGED <<given, environmentName, file, existingBucketName,
                   useExistingVersionIfAvailable, waitUntilDeploymentIsFinished,
                   bucket, deployVersionConsecutiveThrottlingErrors, failure,
                   runExitCode>>
    /\ UNCHANGED <<waitVars, apiVars, signVars>>

\* no run is being followed: the variables main and the deploy functions
\* assign
IdleMain ==
    /\ environmentName = "env"
    /\ file = ""
    /\ existingBucketName = NoBucket
    /\ useExistingVersionIfAvailable = FALSE
    /\ waitUntilDeploymentIsFinished = TRUE
    /\ pc = "waitForDeployment"
    /\ issued = <<>>
    /\ results = <<>>
    /\ bucket = NoBucket
    /\ deployVersionConsecutiveThrottlingErrors = 0
    /\ retryDelay = NoTimer
    /\ failure = ""
    /\ runExitCode = Running

IdleRun ==
    /\ given = [region |-> <<"k">>, accessKey |-> <<"k">>, secretKey |-> <<"k">>,
                waitForDeployment |-> Undefined, maxBackoffRetries |-> Undefined]
    /\ IdleMain

\* the process has started, main() has not run yet; the settings main does
\* not take apart are kept as main reads them
InitRun ==
    /\ given \in [region : Settings, accessKey : Settings, secretKey : Settings,
                   waitForDeployment : WaitSettings,
                   maxBackoffRetries : BackoffSettings]
    /\ environmentName \in {"", "env"}
    /\ file \in {"", "app.zip"}
    /\ existingBucketName \in {NoBucket, "my-bucket"}
    /\ useExistingVersionIfAvailable \in BOOLEAN
    /\ waitUntilDeploymentIsFinished = TRUE
    /\ pc = "main"
    /\ issued = <<>>
    /\ results = <<>>
    /\ bucket = NoBucket
    /\ deployVersionConsecutiveThrottlingErrors = 0
    /\ retryDelay = NoTimer
    /\ failure = ""
    /\ runExitCode = Running

----------------------------------------------------------------------------
(* The signing part of awsApiRequest: from options and the clock to the    *)
(* canonical request and the Authorization header.  A digest is the text   *)
(* that was digested between two marks, so that different texts have       *)
(* different digests.                                                      *)

\* invocations followed
MaxSigned == 2
\* longest query value, header value and path drawn
MaxQueryLen == 2
MaxHeaderLen == 4
MaxPathLen == 2

\* the printable ASCII characters in the order of their code units, from 32
\* (the grave accent, code 96, by its name)
Ascii == <<" ", "!", "\"", "#", "$", "%", "&", "'", "(", ")", "*", "+", ",", "-", ".", "/",
         "0", "1", "2", "3", "4", "5", "6", "7", "8", "9", ":", ";", "<", "=", ">", "?",
         "@", "A", "B", "C", "D", "E", "F", "G", "H", "I", "J", "K", "L", "M", "N", "O",
         "P", "Q", "R", "S", "T", "U", "V", "W", "X", "Y", "Z", "[", "\\", "]", "^", "_",
         "grave", "a", "b", "c", "d", "e", "f", "g", "h", "i", "j", "k", "l", "m", "n", "o",
         "p", "q", "r", "s", "t", "u", "v", "w", "x", "y", "z", "{", "|", "}", "~">>

\* the UTF-16 code unit of a character
CharCode(c) ==
    IF c = "\t" THEN 9
    ELSE IF c = "\n" THEN 10
    ELSE 31 + CHOOSE i \in 1..Len(Ascii) : Ascii[i] = c

HexDigits == <<"0", "1", "2", "3", "4", "5", "6", "7", "8", "9",
               "A", "B", "C", "D", "E", "F">>

\* the escape %XX of a character
PercentEncoded(c) ==
    <<"%", HexDigits[(CharCode(c) \div 16) + 1], HexDigits[(CharCode(c) % 16) + 1]>>

Letters == {UpperCase[i] : i \in 1..Len(UpperCase)}
              \cup {LowerCase[i] : i \in 1..Len(LowerCase)}
Digits == {HexDigits[i] : i \in 1..10}
\* what encodeURIComponent leaves as it is
UriUnescaped == Letters \cup Digits \cup {"-", "_", ".", "!", "~", "*", "'", "(", ")"}
\* what encodeURI leaves as it is besides
UriReserved == {";", "/", "?", ":", "@", "&", "=", "+", "$", ",", "#"}

RECURSIVE encodeURIComponent(_)
encodeURIComponent(str) ==
    IF str = <<>> THEN <<>>
    ELSE (IF Head(str) \in UriUnescaped THEN <<Head(str)>>
          ELSE PercentEncoded(Head(str)))
         \o encodeURIComponent(Tail(str))

RECURSIVE encodeURI(_)
encodeURI(str) ==
    IF str = <<>> THEN <<>>
    ELSE (IF Head(str) \in UriUnescaped \cup UriReserved THEN <<Head(str)>>
          ELSE PercentEncoded(Head(str)))
         \o encodeURI(Tail(str))

RECURSIVE ReplaceAll(_, _, _)
\* str.replace(/c/g, with) for one character c
ReplaceAll(str, c, with) ==
    IF str = <<>> THEN <<>>
    ELSE (IF Head(str) = c THEN with ELSE <<Head(str)>>)
         \o ReplaceAll(Tail(str), c, with)

RECURSIVE ReplaceFirst(_, _, _)
\* str.replace(pattern, with) for a string pattern: its first occurrence only
ReplaceFirst(str, pattern, with) ==
    IF Len(str) < Len(pattern) THEN str
    ELSE IF SubSeq(str, 1, Len(pattern)) = pattern
         THEN with \o SubSeq(str, Len(pattern) + 1, Len(str))
    ELSE <<Head(str)>> \o ReplaceFirst(Tail(str), pattern, with)

RECURSIVE Join(_, _)
\* Array.prototype.join
Join(strs, sep) ==
    IF strs = <<>> THEN <<>>
    ELSE IF Len(strs) = 1 THEN strs[1]
    ELSE strs[1] \o sep \o Join(Tail(strs), sep)

RECURSIVE Less(_, _)
\* a < b for strings: by code units
Less(a, b) ==
    IF b = <<>> THEN FALSE
    ELSE IF a = <<>> THEN TRUE
    ELSE IF Head(a) = Head(b) THEN Less(Tail(a), Tail(b))
    ELSE CharCode(Head(a)) < CharCode(Head(b))

\* k put into a sorted array, behind what is not greater
Insert(k, sorted) ==
    LET n == Cardinality({i \in 1..Len(sorted) : ~Less(k, sorted[i])})
    IN  SubSeq(sorted, 1, n) \o <<k>> \o SubSeq(sorted, n + 1, Len(sorted))

\* mutant: the keys stay in the order they were inserted in
sortNot(keys) == keys

RECURSIVE sort(_)
\* Array.prototype.sort() of strings
sort(keys) == IF keys = <<>> THEN <<>> ELSE Insert(Head(keys), sort(Tail(keys)))

\* An object is the sequence of its entries [name, value] in insertion order.
\* Object.keys(obj)
Keys(obj) == [i \in 1..Len(obj) |-> obj[i].name]
\* obj[name]
Get(obj, name) == obj[CHOOSE i \in 1..Len(obj) : obj[i].name = name].value
\* obj[entry.name] = entry.value
Put(obj, entry) ==
    IF \E i \in 1..Len(obj) : obj[i].name = entry.name
    THEN [i \in 1..Len(obj) |-> IF obj[i].name = entry.name THEN entry ELSE obj[i]]
    ELSE Append(obj, entry)

RECURSIVE Assign(_, _)
\* Object.assign(target, source)
Assign(target, source) ==
    IF source = <<>> THEN target
    ELSE Assign(Put(target, Head(source)), Tail(source))

\* a || b for strings
Or(a, b) == IF a = <<>> THEN b ELSE a

\* crypto.createHash('sha256').update(data).digest('hex')
sha256(data) == <<"sha256[">> \o data \o <<"]">>
\* crypto.createHmac('sha256', key).update(data).digest()
hmacSha256(data, key) == <<"hmacSha256[">> \o key \o <<"][">> \o data \o <<"]">>

createSigningKey(secretKey, dateStamp, reg, serviceName) ==
    LET kDate == hmacSha256(dateStamp, <<"A", "W", "S", "4">> \o secretKey)
        kRegion == hmacSha256(reg, kDate)
        kService == hmacSha256(serviceName, kRegion)
    IN  hmacSha256(<<"aws4_request">>, kService)

\* Object.keys(headers).sort().map(h => h.toLowerCase()).join(';')
createSignedHeaders(headers) ==
    LET keys == sort(Keys(headers))
    IN  Join([i \in 1..Len(keys) |-> toLowerCase(keys[i])], <<";">>)

createStringToSign(timestamp, reg, service, canonicalRequest) ==
    <<"AWS4-HMAC-SHA256", "\n">> \o timestamp \o <<"\n">>
        \o SubSeq(timestamp, 1, 8) \o <<"/">> \o reg \o <<"/">> \o service
        \o <<"/aws4_request", "\n">> \o sha256(canonicalRequest)

\* mutant: only what encodeURIComponent escapes is escaped
encodeValuePlain(v) == encodeURIComponent(v)

\* encodeURIComponent(v).replace(/'/g, '%27').replace(/:/g, '%3A')...
encodeValue(v) ==
    ReplaceAll(ReplaceAll(ReplaceAll(ReplaceAll(ReplaceAll(ReplaceAll(
        encodeURIComponent(v),
        "'", <<"%", "2", "7">>), ":", <<"%", "3", "A">>),
        "(", <<"%", "2", "8">>), ")", <<"%", "2", "9">>),
        "!", <<"%", "2", "1">>), "*", <<"%", "2", "A">>)

\* headers[h].replace(/^\s*|\s*$/g, '').replace(' +', ' '): the second
\* pattern is the string ' +', not a regular expression
canonicalValue(value) == ReplaceFirst(TrimEnd(TrimStart(value)), <<" ", "+">>, <<" ">>)

createCanonicalRequest(method, path, querystring, headers, payload) ==
    LET qsKeys == sort(Keys(querystring))
        qsEntries == [i \in 1..Len(qsKeys) |->
                         qsKeys[i] \o <<"=">> \o encodeValue(Get(querystring, qsKeys[i]))]
        headerKeys == sort(Keys(headers))
        headerEntries == [i \in 1..Len(headerKeys) |->
                             toLowerCase(headerKeys[i]) \o <<":">>
                                 \o canonicalValue(Get(headers, headerKeys[i]))]
    IN  method \o <<"\n">>
            \o ReplaceAll(ReplaceAll(encodeURI(path), "(", <<"%", "2", "8">>),
                          ")", <<"%", "2", "9">>) \o <<"\n">>
            \o Join(qsEntries, <<"&">>) \o <<"\n">>
            \o Join(headerEntries, <<"\n">>) \o <<"\n", "\n">>
            \o createSignedHeaders(headers) \o <<"\n">>
            \o sha256(payload)

createAuthHeader(accessKey, timestamp, reg, service, headers, signature) ==
    <<"AWS4-HMAC-SHA256 Credential=">> \o accessKey \o <<"/">>
        \o SubSeq(timestamp, 1, 8) \o <<"/">> \o reg \o <<"/">> \o service
        \o <<"/aws4_request, SignedHeaders=">> \o createSignedHeaders(headers)
        \o <<", Signature=">> \o signature

\* two decimal digits
TwoDigits(n) == <<HexDigits[(n \div 10) + 1], HexDigits[(n % 10) + 1]>>

\* new Date(ms).toISOString(), for a time within the first minute of a day
toISOString(ms) ==
    <<"2", "0", "2", "0", "-", "0", "1", "-", "0", "1">> \o <<"T", "0", "0", ":", "0", "0", ":">>
        \o TwoDigits(ms \div SECOND) \o <<".">>
        \o <<HexDigits[((ms % SECOND) \div 100) + 1]>> \o TwoDigits(ms % 100) \o <<"Z">>

RECURSIVE RemoveMillis(_)
\* .replace(/\.\d\d\d/g, '')
RemoveMillis(str) ==
    IF str = <<>> THEN <<>>
    ELSE IF /\ Len(str) >= 4
            /\ str[1] = "."
            /\ \A i \in 2..4 : str[i] \in Digits
         THEN RemoveMillis(SubSeq(str, 5, Len(str)))
    ELSE <<Head(str)>> \o RemoveMillis(Tail(str))

\* new Date().toISOString().replace(/(-|:|\.\d\d\d)/g, '')
Timestamp(ms) == RemoveMillis(ReplaceAll(ReplaceAll(toISOString(ms), "-", <<>>), ":", <<>>))

\* reqHeaders = Object.assign({Accept: ..., Host: host, ...}, sessionTokenHeader, headers)
ReqHeaders(host, timestamp, payload, sessionToken, headers) ==
    LET sessionTokenHeader ==
            IF sessionToken # <<>>
            THEN << [name |-> <<"x", "-", "a", "m", "z", "-", "s", "e", "c", "u", "r", "i", "t", "y", "-", "t", "o", "k", "e", "n">>,
                     value |-> sessionToken] >>
            ELSE <<>>
    IN  Assign(Assign(
            << [name |-> <<"A", "c", "c", "e", "p", "t">>, value |-> <<"application/json">>],
               [name |-> <<"H", "o", "s", "t">>, value |-> host],
               [name |-> <<"C", "o", "n", "t", "e", "n", "t", "-", "T", "y", "p", "e">>,
                value |-> <<"application/json">>],
               [name |-> <<"x", "-", "a", "m", "z", "-", "d", "a", "t", "e">>, value |-> timestamp],
               [name |-> <<"x", "-", "a", "m", "z", "-", "c", "o", "n", "t", "e", "n", "t", "-", "s", "h", "a", "2", "5", "6">>,
                value |-> sha256(payload)] >>,
            sessionTokenHeader), headers)

\* the orders in which the entries of an object may have been inserted
Orders(obj) ==
    { [i \in 1..Len(obj) |-> obj[p[i]]] : p \in Permutations(1..Len(obj)) }

\* what one invocation signs: new Promise((resolve, reject) => { ... up to
\* reqHeaders.Authorization = authHeader
Signed(opts, ms) ==
    LET method == Or(opts.method, <<"GET">>)
        path == Or(opts.path, <<"/">>)
        host == ResolveHost(opts.host, opts.region)
        timestamp == Timestamp(ms)
        reqHeaders == ReqHeaders(host, timestamp, opts.payload, opts.sessionToken,
                                 opts.headers)
        canonicalRequest == createCanonicalRequest(method, path, opts.querystring,
                                                   reqHeaders, opts.payload)
        stringToSign == createStringToSign(timestamp, opts.region, opts.service,
                                           canonicalRequest)
        signingKey == createSigningKey(opts.secretKey, SubSeq(timestamp, 1, 8),
                                       opts.region, opts.service)
        signature == hmacSha256(stringToSign, signingKey)
    IN  [queryKeys |-> Keys(opts.querystring),
         timestamp |-> timestamp,
         reqHeaders |-> reqHeaders,
         canonicalRequest |-> canonicalRequest,
         signedHeaders |-> createSignedHeaders(reqHeaders),
         Authorization |-> createAuthHeader(opts.accessKey, timestamp, opts.region,
                                            opts.service, reqHeaders, signature)]

\* awsApiRequest(options) is invoked and signs its request; the caller's
\* objects hold their entries in some insertion order
SignRequest ==
    /\ Len(signedRequests) < MaxSigned
    /\ \E querystring \in Orders(options.querystring), headers \in Orders(options.headers) :
          signedRequests' =
              Append(signedRequests,
                     Signed([options EXCEPT !.querystring = querystring,
                                            !.headers = headers], clock))
    /\ UNCHANGED <<options, clock>>
    /\ UNCHANGED <<waitVars, apiVars, runVars>>

\* time passes between two invocations, within the first second
SignClock ==
    /\ clock < SECOND
    /\ clock' = clock + HalfSecond
    /\ UNCHANGED <<options, signedRequests>>
    /\ UNCHANGED <<waitVars, apiVars, runVars>>

\* the texts over some characters, up to a length
Texts(chars, n) == UNION { [1..k -> chars] : k \in 0..n }

\* values of a query parameter: what a version description may hold
QueryValues == Texts({"a", " ", "'", ":", "(", ")", "!", "*"}, MaxQueryLen)
\* values of a header a caller passes
HeaderValues == Texts({"a", " ", "+"}, MaxHeaderLen)
\* names of a header a caller passes
HeaderNames == { <<"C", "o", "n", "t", "e", "n", "t", "-", "T", "y", "p", "e">>,
                 <<"c", "o", "n", "t", "e", "n", "t", "-", "m", "d", "5">> }
\* what follows the leading / of an S3 key
PathTexts == Texts({"a", " ", "(", ")", "%"}, MaxPathLen)

\* a call of the Elastic Beanstalk API
BeanstalkOptions(description) ==
    [service |-> <<"elasticbeanstalk">>, host |-> <<>>, method |-> <<>>,
     path |-> <<>>, payload |-> <<>>, headers |-> <<>>,
     querystring |-> << [name |-> <<"O", "p", "e", "r", "a", "t", "i", "o", "n">>,
                         value |-> <<"C", "r", "e", "a", "t", "e", "A", "p", "p", "l", "i", "c", "a", "t", "i", "o", "n", "V", "e", "r", "s", "i", "o", "n">>],
                        [name |-> <<"D", "e", "s", "c", "r", "i", "p", "t", "i", "o", "n">>,
                         value |-> description] >>]

\* an upload to S3
UploadOptions(key, headers) ==
    [service |-> <<"s3">>, host |-> <<"bucket.s3.amazonaws.com">>,
     method |-> <<"PUT">>, path |-> <<"/">> \o key, payload |-> <<"filebuffer">>,
     headers |-> headers, querystring |-> <<>>]

\* the calls followed: one setting of the call varies at a time
SignedCalls ==
    { BeanstalkOptions(v) : v \in QueryValues }
    \cup { UploadOptions(<<"a">>, << [name |-> <<"C", "o", "n", "t", "e", "n", "t", "-", "T", "y", "p", "e">>, value |-> v] >>) :
              v \in HeaderValues }
    \cup { UploadOptions(<<"a">>, << [name |-> h, value |-> <<"a">>] >>) :
              h \in HeaderNames }
    \cup { UploadOptions(k, <<>>) : k \in PathTexts }

\* the session tokens followed, <<>> for none
SessionTokens == {<<>>, <<"token">>, <<"t", " ", " ", "k">>}

\* no invocation is being signed
IdleSign ==
    /\ options = [service |-> <<>>, host |-> <<>>, method |-> <<>>, path |-> <<>>,
                  payload |-> <<>>, headers |-> <<>>, querystring |-> <<>>,
                  region |-> <<>>, accessKey |-> <<>>, secretKey |-> <<>>,
                  sessionToken |-> <<>>]
    /\ clock = 0
    /\ signedRequests = <<>>

\* a caller is about to invoke awsApiRequest(options)
InitSign ==
    /\ \E call \in SignedCalls, reg \in Regions, token \in SessionTokens :
          /\ \/ call = BeanstalkOptions(<<>>)
             \/ reg = <<"u", "s", "-", "e", "a", "s", "t", "-", "1">> /\ token = <<>>
          /\ options = [service |-> call.service, host |-> call.host,
                        method |-> call.method, path |-> call.path,
                        payload |-> call.payload, headers |-> call.headers,
                        querystring |-> call.querystring,
                        region |-> reg, accessKey |-> <<"AKID">>,
                        secretKey |-> <<"secret">>, sessionToken |-> token]
    /\ clock = 0
    /\ signedRequests = <<>>

----------------------------------------------------------------------------
(* The state when waitForDeployment returns: the closure variables are     *)
(* initialised and the first update() has issued its two calls.            *)

InitWait ==
    /\ start = HalfSecond
    /\ now = SECOND
    /\ waitStart = SECOND
    /\ waitForRecoverySeconds \in RecoveryChoices
    /\ counter = 0
    /\ degraded = FALSE
    /\ healThreshold = NoThreshold
    /\ deploymentFailed = FALSE
    /\ waitPeriod = 10 * SECOND
    /\ eventCalls = 0
    /\ environmentCalls = 0
    /\ consecutiveThrottleErrors = 0
    /\ promise = Pending
    /\ timer = NoTimer
    /\ cycle = 1
    /\ calls = { [op |-> "DescribeEvents", cycle |-> 1,
                  StartTime |-> FormatStartTime(start), sentLen |-> 0],
                 [op |-> "DescribeEnvironments", cycle |-> 1, StartTime |-> 0, sentLen |-> 0] }
    /\ exitCode = Running
    /\ platformEvents = <<>>
    /\ logged = <<>>
    /\ envLog = <<>>
    /\ last = [op |-> "", fulfilled |-> FALSE, statusCode |-> 0, Code |-> "", env |-> NoEnv]

Init == InitWait /\ IdleApi /\ IdleRun /\ IdleSign

Next ==
    \/ update(MaxCycles)
    \/ EventsHandler
    \/ EnvironmentHandler
    \/ PlatformEvent(MaxEvents)
    \/ Tick(MaxCycles)

Spec == Init /\ [][Next]_vars

NextEvents ==
    \/ update(EventsCycles)
    \/ EventsHandler
    \/ EnvironmentHandler
    \/ PlatformEvent(EventsMax)
    \/ Tick(EventsCycles)

SpecEvents == Init /\ [][NextEvents]_vars

NextQuiet ==
    \/ update(QuietCycles)
    \/ EventsHandler
    \/ EnvironmentHandler
    \/ Tick(QuietCycles)

SpecQuiet == Init /\ [][NextQuiet]_vars

NextLong ==
    \/ update(LongCycles)
    \/ EventsHandler
    \/ EnvironmentHandler
    \/ Tick(LongCycles)

SpecLong == Init /\ [][NextLong]_vars

\* Slow deployments: cycles followed, how long a response may take, and the
\* time followed
SlowCycles == 4
SlowResponses == {5 * MINUTE - TickMs}
SlowEnd == 10 * MINUTE + 2 * TickMs

\* time passes while calls are in flight
SlowResponse ==
    /\ exitCode = Running
    /\ calls # {}
    /\ \E d \in SlowResponses :
          /\ now + d <= waitStart + SlowEnd
          /\ now' = now + d
    /\ UNCHANGED <<waitForRecoverySeconds, start, monitorVars, waitPeriod,
                   waitStart, promise, timer, calls, cycle, exitCode,
                   platformEvents, logged, envLog, last>>
    /\ UNCHANGED <<apiVars, runVars, signVars>>

\* nothing is in flight: time passes until the timer set by
\* setTimeout(update, waitPeriod) is due
TimerWait ==
    /\ exitCode = Running
    /\ calls = {}
    /\ timer # NoTimer
    /\ now < timer
    /\ now' = now + TickMs
    /\ UNCHANGED <<waitForRecoverySeconds, start, monitorVars, waitPeriod,
                   waitStart, promise, timer, calls, cycle, exitCode,
                   platformEvents, logged, envLog, last>>
    /\ UNCHANGED <<apiVars, runVars, signVars>>

NextSlow ==
    \/ update(SlowCycles)
    \/ EventsHandler
    \/ EnvironmentHandler
    \/ SlowResponse
    \/ TimerWait

SpecSlow == Init /\ [][NextSlow]_vars

\* the first poll cycle, with up to EventsMax events on the platform
NextBatch ==
    \/ EventsHandler
    \/ EnvironmentHandler
    \/ PlatformEvent(EventsMax)

SpecBatch == Init /\ [][NextBatch]_vars

----------------------------------------------------------------------------
(* awsApiRequest and the run on their own *)

\* waitForDeployment has not been called
IdleWait ==
    /\ start = 0
    /\ now = 0
    /\ waitStart = 0
    /\ waitForRecoverySeconds = 30
    /\ counter = 0
    /\ degraded = FALSE
    /\ healThreshold = NoThreshold
    /\ deploymentFailed = FALSE
    /\ waitPeriod = 10 * SECOND
    /\ eventCalls = 0
    /\ environmentCalls = 0
    /\ consecutiveThrottleErrors = 0
    /\ promise = Pending
    /\ timer = NoTimer
    /\ cycle = 0
    /\ calls = {}
    /\ exitCode = Running
    /\ platformEvents = <<>>
    /\ logged = <<>>
    /\ envLog = <<>>
    /\ last = [op |-> "", fulfilled |-> FALSE, statusCode |-> 0, Code |-> "", env |-> NoEnv]

InitRequest == IdleWait /\ InitApi /\ IdleRun /\ IdleSign

NextRequest ==
    \/ ApiResponseHandler
    \/ ApiRetry

SpecRequest == InitRequest /\ [][NextRequest]_vars

\* one awsApiRequest invocation of a process started with or without the
\* input max_backoff_retries
InitCeiling ==
    /\ IdleWait /\ InitApi /\ IdleSign
    /\ given \in [region : {<<"k">>}, accessKey : {<<"k">>}, secretKey : {<<"k">>},
                   waitForDeployment : {Undefined},
                   maxBackoffRetries : BackoffSettings]
    /\ IdleMain

SpecCeiling == InitCeiling /\ [][NextRequest]_vars

InitDeploy == IdleWait /\ IdleApi /\ InitRun /\ IdleSign

NextDeploy ==
    \/ main
    \/ AfterGetApplicationVersion
    \/ AfterReadFile
    \/ AfterCreateStorageLocation
    \/ AfterCheckIfFileExistsInS3
    \/ AfterUploadFileToS3
    \/ AfterCreateBeanstalkVersion
    \/ AfterDeployBeanstalkVersion
    \/ AfterDeployExistingVersion
    \/ RetryDeployExistingVersion

SpecDeploy == InitDeploy /\ [][NextDeploy]_vars

InitSigning == IdleWait /\ IdleApi /\ IdleRun /\ InitSign

NextSign ==
    \/ SignRequest
    \/ SignClock

SpecSign == InitSigning /\ [][NextSign]_vars

----------------------------------------------------------------------------
(* Properties *)

GreenSnapshot == [VersionLabel |-> V, Status |-> "Ready", Health |-> "Green"]

\* the first n DescribeEnvironments outcomes were snapshots that are not
\* (version V and status Ready)
OnlyOther(n) == \A i \in 1..n : envLog[i] = "other"

\* every DescribeEnvironments outcome in log was a snapshot with version V,
\* status Ready and a health that is not Green
OnlyNotGreen(log) == \A i \in 1..Len(log) : log[i] = "notGreen"

\* this step is the environment handler
EnvironmentsHandled == envLog' # envLog

\* some logged event carried the "Failed to deploy application" message
FailureLogged ==
    \E id \in 1..Len(logged) : logged[id] > 0 /\ platformEvents[id].Failed

\* C1: the promise of waitForDeployment is resolved only with a snapshot whose
\* version is the target version, whose status is Ready and whose health is
\* Green.
C1_ResolvesOnlyGreen ==
    promise.state = "resolved" =>
        /\ promise.env.VersionLabel = V
        /\ promise.env.Status = "Ready"
        /\ promise.env.Health = "Green"

C1_Witness == promise.state = "resolved" /\ exitCode = 0

\* C2: when the snapshots handled are any number that are not (V and Ready),
\* then one that is V, Ready and not Green, then one that is V, Ready and
\* Green, the monitor is not degraded during the first part, is Degraded after
\* the second and Done after the third, resolved with the Green snapshot; and
\* a degraded monitor that handles a V, Ready, Green snapshot is Done with that
\* snapshot, whether or not the recovery threshold has passed.
C2_PollingDegradedDone ==
    /\ OnlyOther(Len(envLog)) =>
          /\ ~degraded
          /\ MonitorState \in {"Polling", "Failed"}
    /\ (Len(envLog) >= 1 /\ envLog[Len(envLog)] = "notGreen" /\ OnlyOther(Len(envLog) - 1)) =>
          /\ degraded
          /\ MonitorState \in {"Degraded", "Failed"}
    /\ (/\ Len(envLog) >= 2
        /\ envLog[Len(envLog)] = "green"
        /\ envLog[Len(envLog) - 1] = "notGreen"
        /\ OnlyOther(Len(envLog) - 2)) =>
          /\ degraded
          /\ MonitorState = "Done"
          /\ promise.env = GreenSnapshot
          /\ last.env = GreenSnapshot
    /\ (degraded /\ Len(envLog) >= 1 /\ envLog[Len(envLog)] = "green") =>
          /\ MonitorState = "Done"
          /\ promise.env = GreenSnapshot

C2_Witness ==
    /\ Len(envLog) = 3
    /\ envLog = <<"other", "notGreen", "green">>
    /\ now > healThreshold
    /\ promise.state = "resolved"

\* C3: while every snapshot handled has version V, status Ready and a health
\* that is not Green, the first one makes the monitor Degraded with the
\* threshold waitForRecoverySeconds after it, and each later one rejects with
\* the recovery timeout exactly if it is handled strictly after the threshold;
\* the timeout rejection never happens at or before the threshold.
C3_TimeoutAfterThreshold ==
    /\ [][ (EnvironmentsHandled /\ OnlyNotGreen(envLog')) =>
             /\ degraded'
             /\ envLog = <<>> =>
                   /\ healThreshold' = now + waitForRecoverySeconds * 1000
                   /\ promise'.state = "pending"
             /\ envLog # <<>> =>
                   /\ healThreshold' = healThreshold
                   /\ IF now > healThreshold
                      THEN promise'.state = "rejected" /\ promise'.reason = "timeout"
                      ELSE promise'.state = "pending"
         ]_vars
    /\ [](promise.reason = "timeout" => (degraded /\ now > healThreshold))

C3_Witness ==
    /\ envLog = <<"notGreen", "notGreen", "notGreen">>
    /\ promise.state = "rejected"
    /\ promise.reason = "timeout"
    /\ waitForRecoverySeconds > 0

C5_NoPollingAfterSettled ==
    [][ promise.state # "pending" =>
          /\ cycle' = cycle
          /\ calls' \subseteq calls
          /\ timer' \in {timer, NoTimer}
      ]_vars

\* the events handler rejected while the DescribeEnvironments call of the
\* cycle was still in flight
C5_Witness ==
    /\ promise.state = "rejected"
    /\ last.op = "DescribeEvents"
    /\ \E c \in calls : c.op = "DescribeEnvironments"

\* C6: the cursor `start` never decreases: every step leaves it at least as
\* large as it was.
C6_CursorNeverDecreases == [][start' >= start]_vars

\* C7: no event is logged more than once (the platform returns only events at
\* or after the requested StartTime).
C7_NoEventLoggedTwice == \A id \in 1..Len(logged) : logged[id] <= 1

\* C8: every call in flight was issued by the latest update(): no call of an
\* earlier poll cycle is outstanding once the next cycle has started.
C8_OneCycleInFlight == \A c \in calls : c.cycle = cycle

\* C9: when the five latest DescribeEnvironments results were all throttled,
\* the promise is rejected with the throttling error.
C9_FiveThrottledRejects ==
    (Len(envLog) >= 5 /\ \A i \in (Len(envLog) - 4)..Len(envLog) : envLog[i] = "throttled") =>
        (promise.state = "rejected" /\ promise.reason = "throttling")

\* this step is the events handler, given a throttled result
EventsThrottledHandled ==
    /\ eventCalls' = eventCalls + 1
    /\ last'.op = "DescribeEvents"
    /\ last'.statusCode = 400
    /\ last'.Code = "Throttling"

\* C10: handling a throttled DescribeEvents result changes neither the cursor,
\* the deploymentFailed flag, the degraded flag nor the threshold, logs nothing,
\* leaves the promise pending, the process running and the pending poll as it is.
C10_ThrottledEventsSkipped ==
    [][ EventsThrottledHandled =>
          /\ UNCHANGED <<start, deploymentFailed, degraded, healThreshold, logged,
                         promise, timer, cycle>>
          /\ promise'.state = "pending"
          /\ exitCode' = Running
      ]_vars

\* a throttled DescribeEvents result was handled while the next poll was pending
C10_Witness ==
    /\ last.op = "DescribeEvents"
    /\ last.statusCode = 400
    /\ last.Code = "Throttling"
    /\ consecutiveThrottleErrors >= 1
    /\ timer # NoTimer
    /\ exitCode = Running

\* this step is a response handler of the monitor: it takes one call out of
\* the calls in flight
ResponseHandled == calls' # calls /\ calls' \subseteq calls

\* C11: a handler that is given a transport error, or a result whose status is
\* not 200 and that is not (400, Throttling), rejects the promise and the
\* process exits with code 2, whichever of the two calls it was.
C11_FailuresReject ==
    [][ (/\ ResponseHandled
         /\ \/ ~last'.fulfilled
            \/ /\ last'.statusCode # 200
               /\ ~(last'.statusCode = 400 /\ last'.Code = "Throttling")) =>
          /\ promise'.state = "rejected"
          /\ promise'.reason \in
                IF ~last'.fulfilled THEN {"transport"}
                ELSE IF last'.op = "DescribeEvents" THEN {"describeEvents"}
                ELSE {"describeEnvironments"}
          /\ exitCode' = 2
      ]_vars

\* the events handler was given a 400 result that is not throttling
C11_Witness ==
    /\ last.op = "DescribeEvents"
    /\ last.fulfilled
    /\ last.statusCode = 400
    /\ last.Code = "InvalidParameterValue"
    /\ promise.reason = "describeEvents"
    /\ exitCode = 2

\* C12: the delay of a scheduled retry is a whole number of milliseconds d
\* with 2^n * 100 <= d < 2^n * 100 + 500, n being the attempt that was throttled.
C12_BackoffRange ==
    phase = "backoff" =>
        /\ timeout \in Nat
        /\ 2^retryAttempt * 100 <= timeout
        /\ timeout < 2^retryAttempt * 100 + 500

\* the third retry is scheduled with the largest jitter
C12_Witness ==
    /\ phase = "backoff"
    /\ retryAttempt = 3
    /\ timeout = 1299

\* C13: an operation that is never redirected performs at most 10 retries and
\* at most 11 HTTP requests.
C13_AtMostTenRetries ==
    redirects = 0 => (retries <= 10 /\ httpRequests <= 11)

\* this step is the callback of request()
ApiResponseHandled == phase = "request" /\ response' # response

\* C14: a throttled result that arrives when retryAttempt is above the ceiling
\* resolves the promise with that very result in the same step, and no timer
\* is set.
C14_GiveUpResolves ==
    [][ (/\ ApiResponseHandled
         /\ retryAttempt > 10
         /\ ~response'.err
         /\ response'.statusCode = 400
         /\ response'.Code = "Throttling") =>
          /\ phase' = "resolved"
          /\ apiResult' = response'
          /\ apiResult'.request = httpRequests
          /\ retries' = retries
          /\ timeout' = timeout
          /\ httpRequests' = httpRequests
      ]_vars

C14_Witness ==
    /\ phase = "resolved"
    /\ retryAttempt > 10
    /\ apiResult.statusCode = 400
    /\ apiResult.Code = "Throttling"
    /\ apiResult.request = httpRequests

\* C15: a retry is scheduled only for a result with status 400 and code
\* Throttling; a transport error rejects and every other result that is not a
\* redirect resolves, with that outcome and without another HTTP request.
C15_RetryOnlyThrottled ==
    [][ ApiResponseHandled =>
          /\ retries' # retries =>
                (~response'.err /\ response'.statusCode = 400
                                /\ response'.Code = "Throttling")
          /\ response'.err =>
                /\ phase' = "rejected"
                /\ apiResult' = response'
                /\ httpRequests' = httpRequests
                /\ retries' = retries
          /\ (/\ ~response'.err
              /\ ~(response'.statusCode = 400 /\ response'.Code = "Throttling")
              /\ ~(response'.statusCode \in 300..399 /\ response'.location # <<>>)) =>
                /\ phase' = "resolved"
                /\ apiResult' = response'
                /\ httpRequests' = httpRequests
                /\ retries' = retries
      ]_vars

\* the first request was answered with a 500 result
C15_Witness ==
    /\ phase = "resolved"
    /\ apiResult.statusCode = 500
    /\ httpRequests = 1
    /\ retries = 0

\* C16: after a redirect was followed, the request is sent to and signed for
\* exactly the hostname of the Location URL, in every region; a 3xx result
\* without Location is the result the promise resolves with.
C16_RedirectToLocation ==
    /\ redirects > 0 => (hostname = location /\ canonicalHost = location)
    /\ (response.statusCode \in 300..399 /\ response.location = <<>> /\ ~response.err
          /\ response.request > 0) =>
             (phase = "resolved" /\ apiResult = response)

\* the positions in `issued` of the requests of one operation
Requests(op) == {i \in 1..Len(issued) : issued[i].op = op}

\* the call at position i has returned
Returned(i) == i <= Len(results)

\* C17: when the HEAD request returned 200, no PUT, CreateApplicationVersion
\* or UpdateEnvironment request is issued and the run has failed with the
\* "already exists in S3" error; when it returned anything but 200 or 404, or
\* failed, no PUT is issued and the run has failed.
C17_ExistingFileStopsUpload ==
    \A i \in Requests("HEAD") :
        /\ (Returned(i) /\ ~results[i].err /\ results[i].statusCode = 200) =>
              /\ Requests("PUT") = {}
              /\ Requests("CreateApplicationVersion") = {}
              /\ Requests("UpdateEnvironment") = {}
              /\ runExitCode = 2
              /\ failure = "alreadyInS3"
        /\ (Returned(i) /\ (results[i].err \/ results[i].statusCode \notin {200, 404})) =>
              /\ Requests("PUT") = {}
              /\ runExitCode = 2

C17_Witness ==
    /\ \E i \in Requests("HEAD") : Returned(i) /\ results[i].statusCode = 200
    /\ failure = "alreadyInS3"
    /\ runExitCode = 2

\* the place of a request in the sequence of deployNewVersion
Rank(op) ==
    CASE op = "CreateStorageLocation" -> 1
      [] op = "HEAD" -> 2
      [] op = "PUT" -> 3
      [] op = "CreateApplicationVersion" -> 4
      [] op = "UpdateEnvironment" -> 5
      [] op = "DescribeEvents" -> 6
      [] op = "DescribeEnvironments" -> 7
      [] OTHER -> 0

\* the status deployNewVersion expects of a request
ExpectedStatus(op) == IF op = "HEAD" THEN 404 ELSE 200

\* the run went into deployNewVersion and issued a request there
InDeployNewVersion == Requests("CreateStorageLocation") \cup Requests("HEAD") # {}

\* C18: in deployNewVersion the requests follow each other in the order
\* CreateStorageLocation, HEAD, PUT, CreateApplicationVersion,
\* UpdateEnvironment, monitoring; a request is issued only after the one
\* before it returned the expected status, and after any other outcome no
\* request follows and the run has failed.
C18_RequestsInOrder ==
    InDeployNewVersion =>
        /\ issued[2].op \in {"CreateStorageLocation", "HEAD"}
        /\ \A i \in 2..Len(issued) :
              /\ i > 2 => Rank(issued[i].op) = Rank(issued[i - 1].op) + 1
              /\ (i < Len(issued) /\ issued[i].op # "DescribeEvents") =>
                    /\ Returned(i)
                    /\ ~results[i].err
                    /\ results[i].statusCode = ExpectedStatus(issued[i].op)
              /\ (/\ Returned(i)
                  /\ \/ results[i].err
                     \/ results[i].statusCode # ExpectedStatus(issued[i].op)) =>
                    /\ Len(issued) = i
                    /\ runExitCode = 2

\* the whole sequence was issued and the monitor has started
C18_Witness ==
    /\ pc = "waitForDeployment"
    /\ Len(issued) = 8
    /\ issued[2].op = "CreateStorageLocation"
    /\ issued[8].op = "DescribeEnvironments"

\* C19: with an existing bucket name, CreateStorageLocation is never requested
\* and the HEAD and PUT requests use that bucket; without one,
\* CreateStorageLocation is requested at most once, and exactly once before
\* the HEAD.
C19_ExistingBucketUsed ==
    /\ existingBucketName # "null" =>
          /\ Requests("CreateStorageLocation") = {}
          /\ \A i \in Requests("HEAD") \cup Requests("PUT") :
                issued[i].bucket = existingBucketName
    /\ existingBucketName = "null" =>
          /\ Cardinality(Requests("CreateStorageLocation")) <= 1
          /\ \A i \in Requests("HEAD") :
                /\ Cardinality(Requests("CreateStorageLocation")) = 1
                /\ \A j \in Requests("CreateStorageLocation") : j < i

C19_Witness ==
    /\ existingBucketName = "my-bucket"
    /\ \E i \in Requests("PUT") : issued[i].bucket = "my-bucket"

\* C20: without an environment name no UpdateEnvironment, DescribeEvents or
\* DescribeEnvironments request is issued; the run ends successfully only
\* after CreateApplicationVersion returned 200 or, when the version exists,
\* after DescribeApplicationVersions alone; when the version exists no other
\* request is issued.
C20_NoEnvironmentNoDeploy ==
    environmentName = "" =>
        /\ Requests("UpdateEnvironment") = {}
        /\ Requests("DescribeEvents") = {}
        /\ Requests("DescribeEnvironments") = {}
        /\ runExitCode = 0 =>
              \/ /\ issued[Len(issued)].op = "CreateApplicationVersion"
                 /\ Returned(Len(issued))
                 /\ results[Len(issued)].statusCode = 200
              \/ /\ Len(issued) = 1
                 /\ results[1].versions = 1
        /\ (Returned(1) /\ results[1].versions = 1) => Len(issued) = 1

\* the version was created and the run ended without deploying it
C20_Witness ==
    /\ environmentName = ""
    /\ runExitCode = 0
    /\ Requests("CreateApplicationVersion") # {}

\* wait_for_deployment was set to false
NoWait == given.waitForDeployment \in { <<"f", "a", "l", "s", "e">>,
                                        <<"F", "a", "l", "s", "e">> }

\* C21: when wait_for_deployment is false, no DescribeEvents or
\* DescribeEnvironments request is issued, and once UpdateEnvironment has
\* returned 200 the run has ended with exit code 0 and no request follows,
\* for a new version and for an existing one.
C21_NoWaitEndsAfterUpdate ==
    NoWait =>
        /\ Requests("DescribeEvents") = {}
        /\ Requests("DescribeEnvironments") = {}
        /\ \A i \in Requests("UpdateEnvironment") :
              (Returned(i) /\ ~results[i].err /\ results[i].statusCode = 200) =>
                  /\ runExitCode = 0
                  /\ pc = "exit"
                  /\ Len(issued) = i

\* a new version was deployed and the run ended without monitoring
C21_Witness ==
    /\ NoWait
    /\ Requests("PUT") # {}
    /\ Requests("UpdateEnvironment") # {}
    /\ Returned(Len(issued))
    /\ runExitCode = 0

\* a setting is missing or empty
MissingOrEmpty(val) == val = <<"undefined">> \/ val = <<>>

\* C22: when the region, the access key or the secret key is missing or
\* empty, no request is ever issued, and once main has run the run has ended
\* with exit code 2 and a configuration error.
C22_MissingSettingsFailFirst ==
    (\/ MissingOrEmpty(given.region)
     \/ MissingOrEmpty(given.accessKey)
     \/ MissingOrEmpty(given.secretKey)) =>
        /\ issued = <<>>
        /\ pc \in {"main", "exit"}
        /\ pc = "exit" => (runExitCode = 2 /\ failure = "config")

\* only the secret key is missing, and main has reported it
C22_Witness ==
    /\ ~MissingOrEmpty(given.region)
    /\ ~MissingOrEmpty(given.accessKey)
    /\ given.secretKey = <<"undefined">>
    /\ pc = "exit"
    /\ failure = "config"
    /\ runExitCode = 2

\* DescribeApplicationVersions returned 200 and found the version
VersionExists == Returned(1) /\ results[1].versions = 1

\* the run uploads nothing and creates no version
NothingUploaded ==
    /\ Requests("CreateStorageLocation") = {}
    /\ Requests("HEAD") = {}
    /\ Requests("PUT") = {}
    /\ Requests("CreateApplicationVersion") = {}

\* the run goes on to deploy the existing version
DeploysExisting ==
    /\ Len(issued) >= 2
    /\ issued[2].op = "UpdateEnvironment"
    /\ file = "" \/ useExistingVersionIfAvailable

\* the run has failed and DescribeApplicationVersions is all it issued
FailedAtOnce == runExitCode = 2 /\ Len(issued) = 1

\* a PUT or CreateApplicationVersion request is issued only when
\* DescribeApplicationVersions returned 200 with the version absent and a
\* package was given
UploadOnlyNewVersion ==
    (Requests("PUT") \cup Requests("CreateApplicationVersion") # {}) =>
        /\ Returned(1)
        /\ ~results[1].err
        /\ results[1].statusCode = 200
        /\ results[1].versions = 0
        /\ file # ""

\* C23: a PUT or CreateApplicationVersion request is issued only when
\* DescribeApplicationVersions returned 200 with the version absent and a
\* package was given; when the version exists nothing is uploaded, and the
\* run deploys the existing version (no package, or
\* use_existing_version_if_available set), or has failed without a further
\* request, or, with no environment name and
\* use_existing_version_if_available set, has ended successfully without a
\* further request.
C23_UploadOnlyNewVersion ==
    /\ UploadOnlyNewVersion
    /\ VersionExists =>
          /\ NothingUploaded
          /\ \/ DeploysExisting
             \/ FailedAtOnce
             \/ /\ environmentName = ""
                /\ useExistingVersionIfAvailable
                /\ runExitCode = 0
                /\ Len(issued) = 1

\* the version exists, no environment is named: the run ended with no change
C23_Witness ==
    /\ VersionExists
    /\ environmentName = ""
    /\ useExistingVersionIfAvailable
    /\ runExitCode = 0

\* C23 as stated: when the version exists the run either deploys the existing
\* version or has failed without a further request.
C23_AsStated ==
    /\ UploadOnlyNewVersion
    /\ VersionExists => (NothingUploaded /\ (DeploysExisting \/ FailedAtOnce))

\* the region code starts with "cn-"
StartsWithCn == Len(region) >= 3 /\ SubSeq(region, 1, 3) = <<"c", "n", "-">>

\* options.host when the caller gave one, else the host of the service
Resolved ==
    IF optionsHost # <<>> THEN optionsHost
    ELSE <<"elasticbeanstalk.">> \o region \o <<".amazonaws.com">>

\* the host a request is sent to and signed for when no header overrides it
SuffixedHost == IF StartsWithCn THEN Resolved \o <<".cn">> ELSE Resolved

\* C27: while the headers the caller passed hold no Host, the host written
\* into the canonical request and the host the request is sent to are both
\* the resolved host, with ".cn" appended when the region code starts with
\* "cn-" and unchanged for every other region; a Host among the caller's
\* headers, which following a redirect puts there, is used as it is in both
\* places.
C27_ChinaSuffix ==
    httpRequests > 0 =>
        IF optionsHeaders.Host = <<>>
        THEN hostname = SuffixedHost /\ canonicalHost = SuffixedHost
        ELSE hostname = optionsHeaders.Host /\ canonicalHost = optionsHeaders.Host

\* a request to a bucket host in a region of AWS China
C27_Witness ==
    /\ StartsWithCn
    /\ optionsHost = <<"bucket.s3.amazonaws.com">>
    /\ httpRequests = 1
    /\ hostname = <<"bucket.s3.amazonaws.com", ".cn">>
    /\ canonicalHost = hostname

\* C27 as stated: the two hosts are the resolved host with ".cn" appended in
\* a "cn-" region and the resolved host in every other region.
C27_AsStated ==
    httpRequests > 0 => (hostname = SuffixedHost /\ canonicalHost = SuffixedHost)

RECURSIVE Split(_, _)
\* the pieces of a text between the occurrences of a separator
Split(text, sep) ==
    IF \A i \in 1..Len(text) : text[i] # sep THEN <<text>>
    ELSE LET k == CHOOSE i \in 1..Len(text) :
                      text[i] = sep /\ \A j \in 1..(i - 1) : text[j] # sep
         IN  <<SubSeq(text, 1, k - 1)>> \o Split(SubSeq(text, k + 1, Len(text)), sep)

\* what stands before and after the first separator of a text
Before(text, sep) == Split(text, sep)[1]
After(text, sep) == SubSeq(text, Len(Before(text, sep)) + 2, Len(text))

\* how often a character, and a piece of text, occurs in a text
Count(text, c) == Cardinality({i \in 1..Len(text) : text[i] = c})
Occurrences(text, piece) ==
    Cardinality({i \in 1..(Len(text) - Len(piece) + 1) :
                    SubSeq(text, i, i + Len(piece) - 1) = piece})

\* the lines of the canonical request of the i-th invocation
CanonicalLines(i) == Split(signedRequests[i].canonicalRequest, "\n")

\* C24: two invocations with the same options at the same timestamp produce
\* the same Authorization header and the same signed-headers list, in
\* whatever order the entries of the query and of the headers were inserted.
C24_SigningDeterministic ==
    \A i, j \in 1..Len(signedRequests) :
        signedRequests[i].timestamp = signedRequests[j].timestamp =>
            /\ signedRequests[i].Authorization = signedRequests[j].Authorization
            /\ signedRequests[i].signedHeaders = signedRequests[j].signedHeaders

\* two invocations at different instants of the same second, their query
\* entries inserted in different orders
C24_Witness ==
    /\ Len(signedRequests) = 2
    /\ clock = HalfSecond
    /\ signedRequests[1].timestamp = signedRequests[2].timestamp
    /\ signedRequests[1].queryKeys # signedRequests[2].queryKeys
    /\ signedRequests[1].Authorization = signedRequests[2].Authorization

\* the characters a query value must not hold unescaped, and their escapes
QuerySpecials == {"'", ":", "(", ")", "!", "*"}
EscapeOf(c) ==
    CASE c = "'" -> <<"%", "2", "7">>
      [] c = ":" -> <<"%", "3", "A">>
      [] c = "(" -> <<"%", "2", "8">>
      [] c = ")" -> <<"%", "2", "9">>
      [] c = "!" -> <<"%", "2", "1">>
      [] c = "*" -> <<"%", "2", "A">>
      [] c = " " -> <<"%", "2", "0">>
      [] c = "%" -> <<"%", "2", "5">>

\* the entries of the query line of a canonical request
QueryEntries(line) == IF line = <<>> THEN <<>> ELSE Split(line, "&")

\* the value the caller gave for a query key
QueryValue(key) ==
    options.querystring[CHOOSE k \in 1..Len(options.querystring) :
                            options.querystring[k].name = key].value

\* the path the caller gave, / when none
GivenPath == IF options.path = <<>> THEN <<"/">> ELSE options.path

\* C25: in every canonical request the query line holds one entry for each
\* query parameter, ordered by key; none of ' : ( ) ! * stands unescaped in
\* a value and each occurs as its escape as often as the value holds it; the
\* path line holds no ( or ), each is escaped as %28 or %29, and every
\* escape of the path line stands for one character of the path (the path is
\* encoded once).
C25_QueryAndPathEncoded ==
    \A i \in 1..Len(signedRequests) :
        LET entries == QueryEntries(CanonicalLines(i)[3])
            pathLine == CanonicalLines(i)[2]
        IN  /\ Len(entries) = Len(options.querystring)
            /\ \A k \in 1..(Len(entries) - 1) :
                  Less(Before(entries[k], "="), Before(entries[k + 1], "="))
            /\ \A k \in 1..Len(entries) :
                  /\ \E q \in 1..Len(options.querystring) :
                        options.querystring[q].name = Before(entries[k], "=")
                  /\ \A c \in QuerySpecials :
                        /\ Count(After(entries[k], "="), c) = 0
                        /\ Occurrences(After(entries[k], "="), EscapeOf(c))
                              = Count(QueryValue(Before(entries[k], "=")), c)
            /\ \A c \in {"(", ")", " ", "%"} :
                  Occurrences(pathLine, EscapeOf(c)) = Count(GivenPath, c)
            /\ Count(pathLine, "(") = 0
            /\ Count(pathLine, ")") = 0
            /\ Count(pathLine, "%") = Count(GivenPath, "(") + Count(GivenPath, ")")
                                        + Count(GivenPath, " ") + Count(GivenPath, "%")

\* a description with a quote and a colon was signed, its key inserted last
C25_Witness ==
    /\ Len(signedRequests) >= 1
    /\ Len(options.querystring) = 2
    /\ options.querystring[2].value = <<"'", ":">>
    /\ signedRequests[1].queryKeys[2] = options.querystring[2].name
    /\ Occurrences(CanonicalLines(1)[3], <<"=", "%", "2", "7", "%", "3", "A", "&">>) = 1

RECURSIVE CollapseRuns(_)
\* every run of whitespace made one space
CollapseRuns(text) ==
    IF text = <<>> THEN <<>>
    ELSE IF Head(text) \in Whitespace
         THEN <<" ">> \o CollapseRuns(TrimStart(text))
    ELSE <<Head(text)>> \o CollapseRuns(Tail(text))

\* the value of the request header with a lower-cased name
HeaderValue(i, name) ==
    LET headers == signedRequests[i].reqHeaders
    IN  headers[CHOOSE k \in 1..Len(headers) : toLowerCase(headers[k].name) = name].value

\* C26: in every canonical request the header names are lower-cased, the
\* header lines and the signed-headers list are ordered by the lower-cased
\* name, and each header value is the value given with leading and trailing
\* whitespace removed and every run of internal whitespace collapsed to a
\* single space.
C26_HeadersCanonical ==
    \A i \in 1..Len(signedRequests) :
        LET lines == CanonicalLines(i)
            headerLines == SubSeq(lines, 4, Len(lines) - 3)
            names == [k \in 1..Len(headerLines) |-> Before(headerLines[k], ":")]
        IN  /\ \A k \in 1..Len(names) : names[k] = toLowerCase(names[k])
            /\ \A k \in 1..(Len(names) - 1) : ~Less(names[k + 1], names[k])
            /\ Split(lines[Len(lines) - 1], ";") = names
            /\ Split(signedRequests[i].signedHeaders, ";") = names
            /\ \A k \in 1..Len(names) :
                  After(headerLines[k], ":")
                      = CollapseRuns(TrimEnd(TrimStart(HeaderValue(i, names[k]))))

\* C28: update() sets the wait to 10 seconds when at most 5 minutes have
\* elapsed since the monitor started, to 20 seconds when more than 5 and at
\* most 10 minutes have elapsed, and to 30 seconds when more than 10 minutes
\* have elapsed; every timer is set to that wait; the wait never decreases.
C28_WaitByElapsed ==
    [][ /\ waitPeriod' >= waitPeriod
        /\ cycle' = cycle + 1 =>
              waitPeriod' = IF now - waitStart > 10 * MINUTE THEN 30 * SECOND
                            ELSE IF now - waitStart > 5 * MINUTE THEN 20 * SECOND
                            ELSE 10 * SECOND
        /\ (timer' # timer /\ timer' # NoTimer) => timer' = now + waitPeriod
      ]_vars

\* the fourth cycle started more than 10 minutes in and set the wait to 30 s
C28_Witness ==
    /\ cycle = 4
    /\ now - waitStart > 10 * MINUTE
    /\ waitPeriod = 30 * SECOND
    /\ timer # NoTimer

\* the events a step has logged: the batch its handler was given
Batch == {id \in 1..Len(logged) : logged'[id] # logged[id]}

\* C29: when the events handler is given a result with status 200, the
\* cursor afterwards is one second past the largest timestamp of the events
\* of the batch, and is unchanged when the batch is empty.
C29_CursorPastNewest ==
    [][ (/\ ResponseHandled
         /\ last'.op = "DescribeEvents"
         /\ last'.fulfilled
         /\ last'.statusCode = 200) =>
            IF Batch = {} THEN start' = start
            ELSE /\ \E id \in Batch : start' = platformEvents[id].EventDate + 1000
                 /\ \A id \in Batch : start' > platformEvents[id].EventDate
      ]_vars

\* a batch of two events with different timestamps was handled
C29_Witness ==
    /\ Len(platformEvents) = 2
    /\ platformEvents[1].EventDate = HalfSecond
    /\ platformEvents[2].EventDate = SECOND
    /\ logged = <<1, 1>>
    /\ last.op = "DescribeEvents"
    /\ start = 2 * SECOND

\* C30: with an environment name and wait_for_deployment enabled, the
\* process has exited with 0 only when the monitor resolved with a Green
\* snapshot, and once the monitor has rejected the exit code is 2.
C30_ExitFollowsMonitor ==
    (environmentName # "" /\ waitUntilDeploymentIsFinished) =>
        /\ exitCode = 0 => (promise.state = "resolved" /\ promise.env.Health = "Green")
        /\ promise.state = "rejected" => exitCode = 2

\* the monitor rejected because the recovery time ran out
C30_Witness ==
    /\ environmentName # ""
    /\ waitUntilDeploymentIsFinished
    /\ promise.state = "rejected"
    /\ promise.reason = "timeout"
    /\ exitCode = 2

\* the number a text of decimal digits denotes
RECURSIVE ParseInt(_)
ParseInt(text) ==
    IF text = <<>> THEN 0
    ELSE 10 * ParseInt(SubSeq(text, 1, Len(text) - 1))
         + (CHOOSE d \in 0..9 : HexDigits[d + 1] = text[Len(text)])

\* the retry ceiling the operator asked for: max_backoff_retries, 10 without it
Ceiling ==
    IF given.maxBackoffRetries = Undefined THEN 10
    ELSE ParseInt(given.maxBackoffRetries)

\* C31: an operation that is never redirected performs no more throttling
\* retries than the ceiling the operator supplied as max_backoff_retries, 10
\* when none is supplied, and gives up on a throttled result after exactly
\* that many.
C31_CeilingConfigurable ==
    redirects = 0 =>
        /\ retries <= Ceiling
        /\ (/\ phase = "resolved"
            /\ apiResult.statusCode = 400
            /\ apiResult.Code = "Throttling") => retries = Ceiling

\* the monitor has rejected with the explicit deployment-failure error
RejectedAsFailed == promise.state = "rejected" /\ promise.reason = "deploymentFailed"

\* C32: the monitor never rejects with the explicit deployment-failure error in
\* the poll iteration whose event batch set deploymentFailed.  The earliest
\* batch is the one requested by the first update(), so a further
\* DescribeEvents request in a later iteration means that update() has run at
\* least twice when the monitor rejects.
C32_FailureWaitsForNextIteration ==
    RejectedAsFailed => cycle >= 2

\* the DescribeEnvironments calls in flight
EnvironmentsInFlight == {c \in calls : c.op = "DescribeEnvironments"}

\* C33: at every moment at most one DescribeEnvironments call is in flight
\* and at most one timer for the next update is pending, never both at once;
\* and every step of the environment handler either settles the monitor and
\* sets no timer, or leaves it pending and sets the one timer for the next
\* update, at a moment when none is pending.
C33_OneCallOrOneTimer ==
    /\ [](/\ Cardinality(EnvironmentsInFlight) <= 1
          /\ ~(timer # NoTimer /\ EnvironmentsInFlight # {}))
    /\ [][ EnvironmentsHandled =>
            /\ timer = NoTimer
            /\ \/ promise'.state # "pending" /\ timer' = NoTimer
               \/ promise'.state = "pending" /\ timer' = now + waitPeriod
          ]_vars

\* the third environment snapshot of a run has been handled and the fourth
\* update is scheduled
C33_Witness ==
    /\ Len(envLog) = 3
    /\ cycle = 3
    /\ timer # NoTimer
    /\ EnvironmentsInFlight = {}
    /\ promise.state = "pending"

\* this step is the environment handler, given an un-throttled result of
\* status 200 with a snapshot
SnapshotHandled ==
    /\ EnvironmentsHandled
    /\ last'.fulfilled
    /\ last'.statusCode = 200
    /\ last'.env # NoEnv

\* C34: a monitor that is degraded with threshold T schedules no poll from a
\* snapshot it handles after T: whatever the snapshot's version, status and
\* health, the monitor is Done or Failed after the step and no timer is set.
C34_NoPollPastThreshold ==
    [][ (SnapshotHandled /\ degraded /\ now > healThreshold) =>
            /\ promise'.state \in {"resolved", "rejected"}
            /\ timer' = NoTimer
      ]_vars

\* C35: the degraded flag is never cleared and the recovery threshold is
\* assigned once: it is undefined while the monitor is not degraded, it is set
\* to now + waitForRecoverySeconds by the step that handles the first snapshot
\* with version V, status Ready and a health that is not Green, and no later
\* step changes it.
C35_ThresholdAssignedOnce ==
    /\ [](~degraded => healThreshold = NoThreshold)
    /\ [][ /\ degraded => (degraded' /\ healThreshold' = healThreshold)
           /\ (~degraded /\ degraded') =>
                 /\ SnapshotHandled
                 /\ last'.env.VersionLabel = V
                 /\ last'.env.Status = "Ready"
                 /\ last'.env.Health # "Green"
                 /\ healThreshold' = now + waitForRecoverySeconds * SECOND
                 /\ \A i \in 1..Len(envLog) : envLog[i] \notin {"green", "notGreen"}
          ]_vars

\* a degraded monitor has since handled a throttled result, a snapshot that is
\* no longer Ready and another that is not Green
C35_Witness ==
    /\ degraded
    /\ envLog = <<"notGreen", "throttled", "other", "notGreen">>
    /\ waitForRecoverySeconds = 10
    /\ healThreshold = waitStart + 10 * SECOND

\* C36: the step that handles an un-throttled snapshot with version V, status
\* Ready and health Green resolves the monitor with that snapshot and ends the
\* process with 0, also when deploymentFailed is set; and the step that
\* rejects with the deployment-failure error handles a snapshot that is not
\* (version V and status Ready).
C36_GreenResolvesDespiteFailure ==
    [][ /\ (SnapshotHandled /\ last'.env = GreenSnapshot) =>
              /\ promise' = [state |-> "resolved", env |-> GreenSnapshot, reason |-> ""]
              /\ exitCode' = 0
              /\ timer' = NoTimer
        /\ (promise'.reason = "deploymentFailed" /\ promise.state = "pending") =>
              /\ SnapshotHandled
              /\ deploymentFailed
              /\ ~(last'.env.VersionLabel = V /\ last'.env.Status = "Ready")
      ]_vars

\* the monitor is Done although an event batch reported a failed deployment
C36_Witness ==
    /\ deploymentFailed
    /\ FailureLogged
    /\ promise = [state |-> "resolved", env |-> GreenSnapshot, reason |-> ""]
    /\ exitCode = 0

\* the n most recent DescribeEnvironments results were all throttled
LastThrottled(n) ==
    /\ Len(envLog) >= n
    /\ \A i \in (Len(envLog) - n + 1)..Len(envLog) : envLog[i] = "throttled"

\* C37: the monitor has rejected with the "throttling errors in a row" error
\* only when the five most recent DescribeEnvironments results were all
\* throttled; throttled DescribeEvents results do not count.
C37_OnlyEnvironmentsThrottling ==
    (promise.state = "rejected" /\ promise.reason = "throttling") => LastThrottled(5)

\* C38: the throttling retries of one awsApiRequest invocation, summed over
\* all the hosts it is redirected to, never exceed what the ceiling allows an
\* operation that is not redirected: the attempts numbered 0 to MAX_RETRY_COUNT
\* are retried, one retry each.
C38_RetriesAcrossRedirects ==
    retries <= MAX_RETRY_COUNT + 1

\* this step is deployExistingVersion's reaction to a throttled result of
\* UpdateEnvironment
ExistingThrottled ==
    /\ pc = "deployExistingVersion"
    /\ Len(results') = Len(results) + 1
    /\ ~Last(results').err
    /\ Last(results').statusCode = 400
    /\ Last(results').Code = "Throttling"

\* C39: a throttled result of UpdateEnvironment for an existing version counts
\* one more throttling error of the run; up to the fourth, the run waits 10
\* seconds without a request and without starting the monitor and then calls
\* UpdateEnvironment again; the fifth ends the run in failure.  The count
\* never goes down, so UpdateEnvironment is called at most 5 times.
C39_ExistingVersionThrottled ==
    /\ [](Cardinality(Requests("UpdateEnvironment")) <= 5)
    /\ [][ /\ deployVersionConsecutiveThrottlingErrors'
                 >= deployVersionConsecutiveThrottlingErrors
           /\ ExistingThrottled =>
                 /\ deployVersionConsecutiveThrottlingErrors'
                       = deployVersionConsecutiveThrottlingErrors + 1
                 /\ issued' = issued
                 /\ IF deployVersionConsecutiveThrottlingErrors' < 5
                    THEN /\ pc' = "retryDeployExistingVersion"
                         /\ retryDelay' = 10 * SECOND
                         /\ runExitCode' = Running
                    ELSE /\ pc' = "exit"
                         /\ runExitCode' = 2
                         /\ failure' = "throttling"
           /\ pc = "retryDeployExistingVersion" =>
                 /\ pc' = "deployExistingVersion"
                 /\ issued' = Append(issued, [op |-> "UpdateEnvironment", bucket |-> ""])
          ]_vars

\* five UpdateEnvironment calls of one run were throttled
C39_Witness ==
    /\ Cardinality(Requests("UpdateEnvironment")) = 5
    /\ deployVersionConsecutiveThrottlingErrors = 5
    /\ failure = "throttling"
    /\ runExitCode = 2

\* some DescribeEvents call in flight asks for the events from time t on
StillRequested(t) ==
    \E c \in calls : c.op = "DescribeEvents" /\ c.StartTime <= t

\* C40: no event is skipped: an event recorded with a timestamp at or after
\* the initial start time that no batch has logged yet is still ahead of the
\* cursor, as the next DescribeEvents request sends it, unless a request in
\* flight covers it.
C40_NoEventSkipped ==
    \A id \in 1..Len(platformEvents) :
        (/\ logged[id] = 0
         /\ platformEvents[id].EventDate >= HalfSecond
         /\ ~StillRequested(platformEvents[id].EventDate)) =>
            platformEvents[id].EventDate >= FormatStartTime(start)

====
